---- MODULE Spec2Model ----
(***************************************************************************)
(* Pkmn Red Save Genie: the in-memory save buffer (SaveBuffer), the layout *)
(* helpers (Gen1Layout), the text and BCD codecs, the checksum routines    *)
(* (Gen1Checksum), the Hall of Fame scanner (ReadOnlyData) and the backup  *)
(* step of FileManipulation.                                               *)
(*                                                                         *)
(* The state is one SaveBuffer and the record of the last call made on it: *)
(*   bytes  the byte vector bytes_ (a sequence, bytes_[off] = bytes[off+1])*)
(*   pre    the byte vector as it was before the last call                 *)
(*   op     the last call: its name and arguments                          *)
(*   res    its outcome: err  "none" or the kind of exception thrown       *)
(*                       val  the value returned ("void" when none)        *)
(*                       acc  whether a SaveBuffer accessor was entered    *)
(*   steps  the number of calls made so far                                *)
(*   files  the files on disk: path -> [exists, data]; the empty function  *)
(*          where no call touches the disk                                 *)
(* An exception is an outcome record, so a call that throws half way keeps *)
(* the writes it made before throwing.                                     *)
(***************************************************************************)
EXTENDS Integers, Sequences, FiniteSets, TLC

VARIABLES bytes, pre, op, res, steps, files

vars == <<bytes, pre, op, res, steps, files>>

NoVal == "void"

\* Outcome of a call: exception kind, returned value, buffer afterwards,
\* and whether the call entered a SaveBuffer accessor.
Ret(err, val, b, acc) == [err |-> err, val |-> val, b |-> b, acc |-> acc]

Op(name, off, len, v, idx) == [name |-> name, off |-> off, len |-> len, v |-> v, idx |-> idx]

Min(a, b) == IF a < b THEN a ELSE b

\* std::clamp(v, lo, hi)
Clamp(v, lo, hi) == IF v < lo THEN lo ELSE IF v > hi THEN hi ELSE v

\* Bit i of x: (x >> i) & 1
Bit(x, i) == (x \div (2 ^ i)) % 2

\* A vector of n bytes all equal to v (SubSeq makes it a sequence value).
Filled(n, v) == SubSeq([i \in 1..n |-> v], 1, n)

(***************************************************************************)
(* SaveBuffer                                                              *)
(***************************************************************************)

Size(b) == Len(b)

\* TRUE when RequireRange returns, FALSE when it throws std::out_of_range.
\* (off + len cannot wrap for the offsets of this model, so end < off is
\* never true; the test is kept as the code has it.)
RequireRange(b, off, len) ==
    IF len = 0 THEN TRUE
    ELSE IF off > Size(b) THEN FALSE
    ELSE LET end == off + len
         IN  ~(end < off \/ end > Size(b))

ReadU8(b, off) ==
    IF ~RequireRange(b, off, 1) THEN Ret("OutOfRange", NoVal, b, TRUE)
    ELSE Ret("none", b[off + 1], b, TRUE)

\* bytes_[off] | (bytes_[off+1] << 8): the two operands share no bit.
ReadU16LE(b, off) ==
    IF ~RequireRange(b, off, 2) THEN Ret("OutOfRange", NoVal, b, TRUE)
    ELSE Ret("none", b[off + 1] + ((b[off + 2] * 256) % 65536), b, TRUE)

ReadU24BE(b, off) ==
    IF ~RequireRange(b, off, 3) THEN Ret("OutOfRange", NoVal, b, TRUE)
    ELSE Ret("none", b[off + 1] * 65536 + b[off + 2] * 256 + b[off + 3], b, TRUE)

WriteU8(b, off, v) ==
    IF ~RequireRange(b, off, 1) THEN Ret("OutOfRange", NoVal, b, TRUE)
    ELSE Ret("none", NoVal, [b EXCEPT ![off + 1] = v], TRUE)

\* Faulty variant of WriteU16LE: the two bytes in big-endian order.
WriteU16LE_BigEndian(b, off, v) ==
    IF ~RequireRange(b, off, 2) THEN Ret("OutOfRange", NoVal, b, TRUE)
    ELSE Ret("none", NoVal,
             [b EXCEPT ![off + 1] = (v \div 256) % 256,
                       ![off + 2] = v % 256], TRUE)

WriteU16LE(b, off, v) ==
    IF ~RequireRange(b, off, 2) THEN Ret("OutOfRange", NoVal, b, TRUE)
    ELSE Ret("none", NoVal,
             [b EXCEPT ![off + 1] = v % 256,
                       ![off + 2] = (v \div 256) % 256], TRUE)

WriteU24BE(b, off, v) ==
    IF ~RequireRange(b, off, 3) THEN Ret("OutOfRange", NoVal, b, TRUE)
    ELSE Ret("none", NoVal,
             [b EXCEPT ![off + 1] = (v \div 65536) % 256,
                       ![off + 2] = (v \div 256) % 256,
                       ![off + 3] = v % 256], TRUE)

\* The bit index is checked before the range.
GetBit(b, byteOff, bitIndex0to7) ==
    IF bitIndex0to7 >= 8 THEN Ret("OutOfRange", NoVal, b, TRUE)
    ELSE IF ~RequireRange(b, byteOff, 1) THEN Ret("OutOfRange", NoVal, b, TRUE)
    ELSE Ret("none", Bit(b[byteOff + 1], bitIndex0to7) # 0, b, TRUE)

\* Faulty variant of SetBit: the byte becomes the mask, or 0.
SetBit_WholeByte(b, byteOff, bitIndex0to7, value) ==
    IF bitIndex0to7 >= 8 THEN Ret("OutOfRange", NoVal, b, TRUE)
    ELSE IF ~RequireRange(b, byteOff, 1) THEN Ret("OutOfRange", NoVal, b, TRUE)
    ELSE Ret("none", NoVal,
             [b EXCEPT ![byteOff + 1] = IF value THEN 2 ^ bitIndex0to7 ELSE 0], TRUE)

\* bytes_[byteOff] |= mask   or   bytes_[byteOff] &= ~mask
SetBit(b, byteOff, bitIndex0to7, value) ==
    IF bitIndex0to7 >= 8 THEN Ret("OutOfRange", NoVal, b, TRUE)
    ELSE IF ~RequireRange(b, byteOff, 1) THEN Ret("OutOfRange", NoVal, b, TRUE)
    ELSE LET mask == 2 ^ bitIndex0to7
             old  == b[byteOff + 1]
             set  == Bit(old, bitIndex0to7) = 1
             new  == IF value THEN (IF set THEN old ELSE old + mask)
                              ELSE (IF set THEN old - mask ELSE old)
         IN  Ret("none", NoVal, [b EXCEPT ![byteOff + 1] = new], TRUE)

\* The set of outcomes of Slice.  RequireRange returns at once when len = 0,
\* so Slice(off, 0) with off > size forms bytes_.begin() + off past the end
\* of the vector: undefined behaviour, which a build either turns into an
\* empty vector or traps on.
Slice(b, off, len) ==
    IF ~RequireRange(b, off, len) THEN {Ret("OutOfRange", NoVal, b, TRUE)}
    ELSE IF off + len <= Size(b)
         THEN {Ret("none", SubSeq(b, off + 1, off + len), b, TRUE)}
         ELSE {Ret("none", <<>>, b, TRUE), Ret("Undefined", NoVal, b, TRUE)}

(***************************************************************************)
(* Gen1TextCodec.  A char is its ASCII code; a std::string is a sequence   *)
(* of codes.                                                               *)
(***************************************************************************)

\* 'A' = 65, '0' = 48, ' ' = 32, '?' = 63, '\0' = 0
ByteToAscii(byte) ==
    IF byte >= 128 /\ byte <= 153 THEN 65 + (byte - 128)
    ELSE IF byte >= 160 /\ byte <= 169 THEN 48 + (byte - 160)
    ELSE IF byte = 127 THEN 32
    ELSE IF byte = 80 THEN 0
    ELSE 63

\* Faulty variant of AsciiToByte: lowercase letters are not normalized and
\* fall back to the space.
AsciiToByte_NoCaseFold(ch) ==
    IF ch >= 65 /\ ch <= 90 THEN 128 + (ch - 65)
    ELSE IF ch >= 48 /\ ch <= 57 THEN 160 + (ch - 48)
    ELSE 127

\* 'a'..'z' = 97..122 are first turned into 'A'..'Z'.
AsciiToByte(ch) ==
    LET c == IF ch >= 97 /\ ch <= 122 THEN ch - 97 + 65 ELSE ch
    IN  IF c >= 65 /\ c <= 90 THEN 128 + (c - 65)
        ELSE IF c >= 48 /\ c <= 57 THEN 160 + (c - 48)
        ELSE IF c = 32 THEN 127
        ELSE 127

\* Faulty variant of DecodeLoop: a terminator is skipped and the bytes
\* after it are decoded too.
RECURSIVE DecodeLoop_SkipsTerminator(_, _, _)
DecodeLoop_SkipsTerminator(bs, i, out) ==
    IF i > Len(bs) THEN out
    ELSE LET c == ByteToAscii(bs[i])
         IN  IF c = 0 THEN DecodeLoop_SkipsTerminator(bs, i + 1, out)
             ELSE DecodeLoop_SkipsTerminator(bs, i + 1, Append(out, c))

\* The loop of DecodeName over the sliced bytes: stop at the first byte
\* that decodes to '\0'.
RECURSIVE DecodeLoop(_, _, _)
DecodeLoop(bs, i, out) ==
    IF i > Len(bs) THEN out
    ELSE LET c == ByteToAscii(bs[i])
         IN  IF c = 0 THEN out ELSE DecodeLoop(bs, i + 1, Append(out, c))

\* The set of outcomes of DecodeName (one per outcome of Slice).
DecodeName(b, off, len) ==
    { IF s.err = "none" THEN Ret("none", DecodeLoop(s.val, 1, <<>>), b, TRUE)
                        ELSE s : s \in Slice(b, off, len) }

\* Faulty variant of EncodeBytes: a name that fills the field is copied
\* whole and leaves no room for the terminator.
EncodeBytes_FullCopy(len, name) ==
    LET n   == Min(Len(name), len)
        out == [i \in 1..len |-> IF i <= n THEN AsciiToByte(name[i]) ELSE 80]
    IN  SubSeq(out, 1, len)

\* The len bytes EncodeName builds before it touches the buffer.
EncodeBytes(len, name) ==
    LET n    == Min(Len(name), len - 1)
        out  == [i \in 1..len |-> IF i <= n THEN AsciiToByte(name[i]) ELSE 80]
        out2 == [out EXCEPT ![n + 1] = 80]
    IN  SubSeq(out2, 1, len)

\* len = 0 returns before any check; otherwise the range is checked once,
\* after the bytes are built and before the copy.
EncodeName(b, off, len, name) ==
    IF len = 0 THEN Ret("none", NoVal, b, FALSE)
    ELSE IF ~RequireRange(b, off, len) THEN Ret("OutOfRange", NoVal, b, TRUE)
    ELSE Ret("none", NoVal,
             SubSeq(b, 1, off) \o EncodeBytes(len, name) \o SubSeq(b, off + len + 1, Len(b)),
             TRUE)

(***************************************************************************)
(* BcdCodec                                                                *)
(***************************************************************************)

\* Faulty variant of bcdDigit: a nibble above 9 counts as 9.
bcdDigit_Saturates(nibble) == IF nibble <= 9 THEN nibble ELSE 9

bcdDigit(nibble) == IF nibble <= 9 THEN nibble ELSE 0

ReadBcd3(b, off) ==
    LET r0 == ReadU8(b, off)
        r1 == ReadU8(b, off + 1)
        r2 == ReadU8(b, off + 2)
    IN  IF r0.err # "none" THEN r0
        ELSE IF r1.err # "none" THEN r1
        ELSE IF r2.err # "none" THEN r2
        ELSE LET d0 == bcdDigit((r0.val \div 16) % 16)
                 d1 == bcdDigit(r0.val % 16)
                 d2 == bcdDigit((r1.val \div 16) % 16)
                 d3 == bcdDigit(r1.val % 16)
                 d4 == bcdDigit((r2.val \div 16) % 16)
                 d5 == bcdDigit(r2.val % 16)
             IN  Ret("none",
                     d0 * 100000 + d1 * 10000 + d2 * 1000 + d3 * 100 + d4 * 10 + d5,
                     b, TRUE)

\* Faulty variant of WriteBcd3: the two digits of every byte are swapped.
WriteBcd3_SwappedNibbles(b, off, value) ==
    IF value > 999999 THEN Ret("ValueOutOfRange", NoVal, b, FALSE)
    ELSE LET d0 == (value \div 100000) % 10
             d1 == (value \div 10000) % 10
             d2 == (value \div 1000) % 10
             d3 == (value \div 100) % 10
             d4 == (value \div 10) % 10
             d5 == value % 10
             b0 == (d1 * 16 + d0) % 256
             b1 == (d3 * 16 + d2) % 256
             b2 == (d5 * 16 + d4) % 256
             w0 == WriteU8(b, off, b0)
             w1 == WriteU8(w0.b, off + 1, b1)
             w2 == WriteU8(w1.b, off + 2, b2)
         IN  IF w0.err # "none" THEN w0
             ELSE IF w1.err # "none" THEN w1
             ELSE w2

\* Three WriteU8 calls in a row: the first one that throws ends the call,
\* the bytes written before it stay written.
WriteBcd3(b, off, value) ==
    IF value > 999999 THEN Ret("ValueOutOfRange", NoVal, b, FALSE)
    ELSE LET d0 == (value \div 100000) % 10
             d1 == (value \div 10000) % 10
             d2 == (value \div 1000) % 10
             d3 == (value \div 100) % 10
             d4 == (value \div 10) % 10
             d5 == value % 10
             b0 == (d0 * 16 + d1) % 256
             b1 == (d2 * 16 + d3) % 256
             b2 == (d4 * 16 + d5) % 256
             w0 == WriteU8(b, off, b0)
             w1 == WriteU8(w0.b, off + 1, b1)
             w2 == WriteU8(w1.b, off + 2, b2)
         IN  IF w0.err # "none" THEN w0
             ELSE IF w1.err # "none" THEN w1
             ELSE w2

ReadBcd2(b, off) ==
    LET r0 == ReadU8(b, off)
        r1 == ReadU8(b, off + 1)
    IN  IF r0.err # "none" THEN r0
        ELSE IF r1.err # "none" THEN r1
        ELSE LET d0 == bcdDigit((r0.val \div 16) % 16)
                 d1 == bcdDigit(r0.val % 16)
                 d2 == bcdDigit((r1.val \div 16) % 16)
                 d3 == bcdDigit(r1.val % 16)
             IN  Ret("none", (d0 * 1000 + d1 * 100 + d2 * 10 + d3) % 65536, b, TRUE)

\* Faulty variant of WriteBcd2: the range check lets 10000 through.
WriteBcd2_OffByOne(b, off, value) ==
    IF value > 10000 THEN Ret("ValueOutOfRange", NoVal, b, FALSE)
    ELSE LET d0 == (value \div 1000) % 10
             d1 == (value \div 100) % 10
             d2 == (value \div 10) % 10
             d3 == value % 10
             b0 == (d0 * 16 + d1) % 256
             b1 == (d2 * 16 + d3) % 256
             w0 == WriteU8(b, off, b0)
             w1 == WriteU8(w0.b, off + 1, b1)
         IN  IF w0.err # "none" THEN w0 ELSE w1

WriteBcd2(b, off, value) ==
    IF value > 9999 THEN Ret("ValueOutOfRange", NoVal, b, FALSE)
    ELSE LET d0 == (value \div 1000) % 10
             d1 == (value \div 100) % 10
             d2 == (value \div 10) % 10
             d3 == value % 10
             b0 == (d0 * 16 + d1) % 256
             b1 == (d2 * 16 + d3) % 256
             w0 == WriteU8(b, off, b0)
             w1 == WriteU8(w0.b, off + 1, b1)
         IN  IF w0.err # "none" THEN w0 ELSE w1

(***************************************************************************)
(* Gen1Layout                                                              *)
(***************************************************************************)

ExpectedSize == 32768                 \* 0x8000
Bank2Base == 16384                    \* 0x4000
Bank3Base == 24576                    \* 0x6000
HallOfFameOff == 1432                 \* 0x0598
HallOfFameLen == 4800                 \* 0x12C0
HallOfFameMaxRecords == 50
HallOfFameRecordSize == 96            \* 0x0060
HallOfFameMonsPerRecord == 6
HallOfFameMonEntrySize == 16          \* 0x0010
TrainerNameOff == 9624                \* 0x2598
MoneyOff == 9715                      \* 0x25F3
RivalNameOff == 9718                  \* 0x25F6
RivalNameLen == 11
BadgesOff == 9730                     \* 0x2602
TrainerIdOff == 9733                  \* 0x2605
CoinsOff == 10320                     \* 0x2850
HallOfFameRecordCountOff == 10318     \* 0x284E
MainChecksumStart == 9624             \* 0x2598
MainChecksumEnd == 13602              \* 0x3522
MainChecksumOff == 13603              \* 0x3523
BoxBlockSize == 1122                  \* 0x0462
Box1Off == 16384                      \* 0x4000
Box2Off == 17506                      \* 0x4462
Box3Off == 18628                      \* 0x48C4
Box4Off == 19750                      \* 0x4D26
Box5Off == 20872                      \* 0x5188
Box6Off == 21994                      \* 0x55EA
Box7Off == 24576                      \* 0x6000
Box8Off == 25698                      \* 0x6462
Box9Off == 26820                      \* 0x68C4
Box10Off == 27942                     \* 0x6D26
Box11Off == 29064                     \* 0x7188
Box12Off == 30186                     \* 0x75EA
Bank2AllChecksumOff == 23116          \* 0x5A4C
Bank2BoxChecksumsOff == 23117         \* 0x5A4D
Bank3AllChecksumOff == 31308          \* 0x7A4C
Bank3BoxChecksumsOff == 31309         \* 0x7A4D

\* The three helpers return [err, val]: err is "InvalidIndex" when the
\* helper throws on the box index.
\* A variant that lets boxes 7..12 follow box 6 in the same bank.
BoxBaseOffsetByIndex1to12_OneBank(boxIndex1to12) ==
    IF boxIndex1to12 < 1 \/ boxIndex1to12 > 12
    THEN [err |-> "InvalidIndex", val |-> NoVal]
    ELSE [err |-> "none", val |-> Box1Off + (boxIndex1to12 - 1) * BoxBlockSize]

BoxBaseOffsetByIndex1to12(boxIndex1to12) ==
    IF boxIndex1to12 < 1 \/ boxIndex1to12 > 12
    THEN [err |-> "InvalidIndex", val |-> NoVal]
    ELSE IF boxIndex1to12 <= 6
         THEN [err |-> "none", val |-> Box1Off + (boxIndex1to12 - 1) * BoxBlockSize]
         ELSE [err |-> "none", val |-> Box7Off + (boxIndex1to12 - 7) * BoxBlockSize]

BankAllChecksumOffsetForBoxIndex1to12(boxIndex1to12) ==
    IF boxIndex1to12 < 1 \/ boxIndex1to12 > 12
    THEN [err |-> "InvalidIndex", val |-> NoVal]
    ELSE [err |-> "none",
          val |-> IF boxIndex1to12 <= 6 THEN Bank2AllChecksumOff ELSE Bank3AllChecksumOff]

\* A variant with one checksum table for both banks.
BankPerBoxChecksumsBaseOffsetForBoxIndex1to12_OneTable(boxIndex1to12) ==
    IF boxIndex1to12 < 1 \/ boxIndex1to12 > 12
    THEN [err |-> "InvalidIndex", val |-> NoVal]
    ELSE [err |-> "none", val |-> Bank2BoxChecksumsOff]

BankPerBoxChecksumsBaseOffsetForBoxIndex1to12(boxIndex1to12) ==
    IF boxIndex1to12 < 1 \/ boxIndex1to12 > 12
    THEN [err |-> "InvalidIndex", val |-> NoVal]
    ELSE [err |-> "none",
          val |-> IF boxIndex1to12 <= 6 THEN Bank2BoxChecksumsOff ELSE Bank3BoxChecksumsOff]

(***************************************************************************)
(* Gen1Checksum                                                            *)
(***************************************************************************)

\* t[lo] + ... + t[hi], by halves (the ranges are thousands of bytes long).
RECURSIVE SumBytes(_, _, _)
SumBytes(t, lo, hi) ==
    IF lo > hi THEN 0
    ELSE IF lo = hi THEN t[lo]
    ELSE LET mid == (lo + hi) \div 2
         IN  SumBytes(t, lo, mid) + SumBytes(t, mid + 1, hi)

\* ~x on a byte: every bit flipped.
Not8(x) ==
    (1 - Bit(x, 0)) + 2 * (1 - Bit(x, 1)) + 4 * (1 - Bit(x, 2)) + 8 * (1 - Bit(x, 3))
    + 16 * (1 - Bit(x, 4)) + 32 * (1 - Bit(x, 5)) + 64 * (1 - Bit(x, 6)) + 128 * (1 - Bit(x, 7))

\* Faulty variant of sumAndInvert8: the first byte of the range is left out.
sumAndInvert8_SkipsFirst(b, startInclusive, endInclusive) ==
    IF endInclusive < startInclusive THEN Ret("InvalidArgument", NoVal, b, FALSE)
    ELSE IF endInclusive >= Size(b) THEN Ret("OutOfRange", NoVal, b, TRUE)
    ELSE LET sum == SumBytes(SubSeq(b, startInclusive + 2, endInclusive + 1),
                             1, endInclusive - startInclusive)
             low == sum % 256
         IN  Ret("none", Not8(low), b, TRUE)

\* The loop reads with ReadU8 from startInclusive upwards, so it throws
\* OutOfRange exactly when endInclusive is not inside the buffer.  The u32
\* accumulator cannot wrap: a range is shorter than 2^24 bytes.
sumAndInvert8(b, startInclusive, endInclusive) ==
    IF endInclusive < startInclusive THEN Ret("InvalidArgument", NoVal, b, FALSE)
    ELSE IF endInclusive >= Size(b) THEN Ret("OutOfRange", NoVal, b, TRUE)
    ELSE LET sum == SumBytes(SubSeq(b, startInclusive + 1, endInclusive + 1),
                             1, endInclusive - startInclusive + 1)
             low == sum % 256
         IN  Ret("none", Not8(low), b, TRUE)

ComputeMain(b) == sumAndInvert8(b, MainChecksumStart, MainChecksumEnd)

\* Faulty variant of ValidateMain: a failed read counts as a mismatch.
ValidateMain_Swallow(b) ==
    LET c == ComputeMain(b)
        s == ReadU8(b, MainChecksumOff)
    IN  IF c.err # "none" \/ s.err # "none" THEN Ret("none", FALSE, b, TRUE)
        ELSE Ret("none", c.val = s.val, b, TRUE)

ValidateMain(b) ==
    LET c == ComputeMain(b)
        s == ReadU8(b, MainChecksumOff)
    IN  IF c.err # "none" THEN c
        ELSE IF s.err # "none" THEN s
        ELSE Ret("none", c.val = s.val, b, TRUE)

\* Faulty variant of FixMain: stores the low byte of the sum, not inverted.
FixMain_StoresSum(b) ==
    LET c == ComputeMain(b)
    IN  IF c.err # "none" THEN c ELSE WriteU8(b, MainChecksumOff, 255 - c.val)

\* The argument ComputeMain(sb) is evaluated before WriteU8 is entered.
FixMain(b) ==
    LET c == ComputeMain(b)
    IN  IF c.err # "none" THEN c ELSE WriteU8(b, MainChecksumOff, c.val)

\* Faulty variant of ComputeBankAll: the range runs through the stored byte.
ComputeBankAll_ThroughStored(b, bankIndex2or3) ==
    IF bankIndex2or3 # 2 /\ bankIndex2or3 # 3 THEN Ret("InvalidIndex", NoVal, b, FALSE)
    ELSE LET start       == IF bankIndex2or3 = 2 THEN Bank2Base ELSE Bank3Base
             checksumOff == IF bankIndex2or3 = 2 THEN Bank2AllChecksumOff
                                                 ELSE Bank3AllChecksumOff
         IN  sumAndInvert8(b, start, checksumOff)

\* Faulty variant of ComputeBankAll: the six stored box checksums of the
\* bank are summed as well.
ComputeBankAll_WithBoxTable(b, bankIndex2or3) ==
    IF bankIndex2or3 # 2 /\ bankIndex2or3 # 3 THEN Ret("InvalidIndex", NoVal, b, FALSE)
    ELSE LET start       == IF bankIndex2or3 = 2 THEN Bank2Base ELSE Bank3Base
             checksumOff == IF bankIndex2or3 = 2 THEN Bank2AllChecksumOff
                                                 ELSE Bank3AllChecksumOff
             blocks      == sumAndInvert8(b, start, checksumOff - 1)
             table       == sumAndInvert8(b, checksumOff + 1, checksumOff + 6)
         IN  IF blocks.err # "none" THEN blocks
             ELSE IF table.err # "none" THEN table
             ELSE Ret("none", Not8(((255 - blocks.val) + (255 - table.val)) % 256), b, TRUE)

ComputeBankAll(b, bankIndex2or3) ==
    IF bankIndex2or3 # 2 /\ bankIndex2or3 # 3 THEN Ret("InvalidIndex", NoVal, b, FALSE)
    ELSE LET start       == IF bankIndex2or3 = 2 THEN Bank2Base ELSE Bank3Base
             checksumOff == IF bankIndex2or3 = 2 THEN Bank2AllChecksumOff
                                                 ELSE Bank3AllChecksumOff
         IN  sumAndInvert8(b, start, checksumOff - 1)

\* The stored byte is read before ComputeBankAll looks at the bank index.
ValidateBankAll(b, bankIndex2or3) ==
    LET checksumOff == IF bankIndex2or3 = 2 THEN Bank2AllChecksumOff
                                            ELSE Bank3AllChecksumOff
        s == ReadU8(b, checksumOff)
        c == ComputeBankAll(b, bankIndex2or3)
    IN  IF s.err # "none" THEN s
        ELSE IF c.err # "none" THEN Ret(c.err, NoVal, b, TRUE)
        ELSE Ret("none", s.val = c.val, b, TRUE)

FixBankAll(b, bankIndex2or3) ==
    LET checksumOff == IF bankIndex2or3 = 2 THEN Bank2AllChecksumOff
                                            ELSE Bank3AllChecksumOff
        c == ComputeBankAll(b, bankIndex2or3)
    IN  IF c.err # "none" THEN c ELSE WriteU8(b, checksumOff, c.val)

ComputeBox(b, boxIndex1to12) ==
    LET base == BoxBaseOffsetByIndex1to12(boxIndex1to12)
    IN  IF base.err # "none" THEN Ret(base.err, NoVal, b, FALSE)
        ELSE sumAndInvert8(b, base.val, base.val + BoxBlockSize - 1)

ValidateBox(b, boxIndex1to12) ==
    LET tableBase  == BankPerBoxChecksumsBaseOffsetForBoxIndex1to12(boxIndex1to12)
        withinBank == IF boxIndex1to12 <= 6 THEN boxIndex1to12 - 1 ELSE boxIndex1to12 - 7
    IN  IF tableBase.err # "none" THEN Ret(tableBase.err, NoVal, b, FALSE)
        ELSE LET s == ReadU8(b, tableBase.val + withinBank)
                 c == ComputeBox(b, boxIndex1to12)
             IN  IF s.err # "none" THEN s
                 ELSE IF c.err # "none" THEN Ret(c.err, NoVal, b, TRUE)
                 ELSE Ret("none", s.val = c.val, b, TRUE)

\* Faulty variant of FixBox: it repairs the main checksum as well.
FixBox_AlsoMain(b, boxIndex1to12) ==
    LET tableBase  == BankPerBoxChecksumsBaseOffsetForBoxIndex1to12(boxIndex1to12)
        withinBank == IF boxIndex1to12 <= 6 THEN boxIndex1to12 - 1 ELSE boxIndex1to12 - 7
    IN  IF tableBase.err # "none" THEN Ret(tableBase.err, NoVal, b, FALSE)
        ELSE LET c == ComputeBox(b, boxIndex1to12)
                 w == WriteU8(b, tableBase.val + withinBank, c.val)
             IN  IF c.err # "none" THEN c
                 ELSE IF w.err # "none" THEN w
                 ELSE FixMain(w.b)

FixBox(b, boxIndex1to12) ==
    LET tableBase  == BankPerBoxChecksumsBaseOffsetForBoxIndex1to12(boxIndex1to12)
        withinBank == IF boxIndex1to12 <= 6 THEN boxIndex1to12 - 1 ELSE boxIndex1to12 - 7
    IN  IF tableBase.err # "none" THEN Ret(tableBase.err, NoVal, b, FALSE)
        ELSE LET c == ComputeBox(b, boxIndex1to12)
             IN  IF c.err # "none" THEN c
                 ELSE WriteU8(b, tableBase.val + withinBank, c.val)

(***************************************************************************)
(* SaveValidator                                                           *)
(***************************************************************************)

\* A variant without the try/catch: the failure of ValidateMain escapes.
HasValidMainChecksum_Uncaught(b) == ValidateMain(b)

\* try { return ValidateMain(sb); } catch (...) { return false; }
HasValidMainChecksum(b) ==
    LET v == ValidateMain(b)
    IN  IF v.err # "none" THEN Ret("none", FALSE, b, v.acc) ELSE v

(***************************************************************************)
(* ReadOnlyData::GetBoxStats.  averageLevel is levelSum / levelCount (0.0  *)
(* when levelCount is 0); the model returns the two integers.              *)
(***************************************************************************)

\* The loop over the first pokemonCount member structs (0x21 bytes each,
\* level at +0x03).
RECURSIVE BoxLevelLoop(_, _, _, _, _, _)
BoxLevelLoop(b, structsBase, i, pokemonCount, levelSum, levelCount) ==
    IF i >= pokemonCount
    THEN Ret("none", [levelSum |-> levelSum, levelCount |-> levelCount], b, TRUE)
    ELSE LET monBase == structsBase + i * 33
             r       == ReadU8(b, monBase + 3)
         IN  IF r.err # "none" THEN r
             ELSE IF r.val >= 1 /\ r.val <= 100
                  THEN BoxLevelLoop(b, structsBase, i + 1, pokemonCount,
                                    levelSum + r.val, levelCount + 1)
                  ELSE BoxLevelLoop(b, structsBase, i + 1, pokemonCount,
                                    levelSum, levelCount)

GetBoxStats(b, boxIndex1to12) ==
    IF boxIndex1to12 < 1 \/ boxIndex1to12 > 12 THEN Ret("InvalidIndex", NoVal, b, FALSE)
    ELSE LET base == BoxBaseOffsetByIndex1to12(boxIndex1to12).val
             c    == ReadU8(b, base)
         IN  IF c.err # "none" THEN c
             ELSE LET pokemonCount == Clamp(c.val, 0, 20)
                      l == BoxLevelLoop(b, base + 22, 0, pokemonCount, 0, 0)
                  IN  IF pokemonCount = 0
                      THEN Ret("none", [boxIndex |-> boxIndex1to12, pokemonCount |-> 0,
                                        levelSum |-> 0, levelCount |-> 0], b, TRUE)
                      ELSE IF l.err # "none" THEN l
                      ELSE Ret("none", [boxIndex |-> boxIndex1to12,
                                        pokemonCount |-> pokemonCount,
                                        levelSum |-> l.val.levelSum,
                                        levelCount |-> l.val.levelCount], b, TRUE)

(***************************************************************************)
(* ReadOnlyData::GetHallOfFame.  A HallOfFamePokemon is [speciesId, level, *)
(* name]; its speciesName is a table lookup on speciesId and is left out.  *)
(* A HallOfFameEntry is [entryIndex, team].                                *)
(***************************************************************************)

IsLikelyValidGen1SpeciesId(speciesId) == speciesId >= 1 /\ speciesId <= 151

\* Number of characters of s equal to ch.
CountChar(s, ch) == Cardinality({i \in 1..Len(s) : s[i] = ch})

\* not empty, not only spaces, and fewer than half '?'
\* Faulty variant of NameLooksReasonable: a name that is half '?' passes.
NameLooksReasonable_HalfPasses(s) ==
    IF Len(s) = 0 THEN FALSE
    ELSE LET q        == CountChar(s, 63)
             nonSpace == Len(s) - CountChar(s, 32)
         IN  IF nonSpace = 0 THEN FALSE ELSE q * 2 <= Len(s)

NameLooksReasonable(s) ==
    IF Len(s) = 0 THEN FALSE
    ELSE LET q        == CountChar(s, 63)
             nonSpace == Len(s) - CountChar(s, 32)
         IN  IF nonSpace = 0 THEN FALSE ELSE q * 2 < Len(s)

\* Faulty variant of ScanSlots: a failed check at any slot ends the scan of
\* the record (the members accepted before it are kept).
RECURSIVE ScanSlots_StopOnFailure(_, _, _, _)
ScanSlots_StopOnFailure(b, recordOff, j, team) ==
    IF j >= HallOfFameMonsPerRecord THEN [err |-> "none", team |-> team]
    ELSE LET monOff  == recordOff + j * HallOfFameMonEntrySize
             species == b[monOff + 1]
             level   == b[monOff + 2]
             name    == (CHOOSE d \in DecodeName(b, monOff + 2, 11) : TRUE).val
             skip    == IF j = 0 THEN [err |-> "none", team |-> <<>>]
                                 ELSE [err |-> "none", team |-> team]
         IN  IF ~RequireRange(b, monOff, HallOfFameMonEntrySize)
             THEN [err |-> "OutOfRange", team |-> team]
             ELSE IF species = 0 \/ species = 255 THEN [err |-> "none", team |-> team]
             ELSE IF ~IsLikelyValidGen1SpeciesId(species) THEN skip
             ELSE IF level < 1 \/ level > 100 THEN skip
             ELSE IF ~NameLooksReasonable(name) THEN skip
             ELSE ScanSlots_StopOnFailure(b, recordOff, j + 1,
                            Append(team, [speciesId |-> species, level |-> level,
                                          name |-> name]))

\* Faulty variant of ScanSlots: a species byte of 0x00 or 0xFF skips its
\* slot instead of ending the scan of the record.
RECURSIVE ScanSlots_SkipSentinel(_, _, _, _)
ScanSlots_SkipSentinel(b, recordOff, j, team) ==
    IF j >= HallOfFameMonsPerRecord THEN [err |-> "none", team |-> team]
    ELSE LET monOff  == recordOff + j * HallOfFameMonEntrySize
             species == b[monOff + 1]
             level   == b[monOff + 2]
             name    == (CHOOSE d \in DecodeName(b, monOff + 2, 11) : TRUE).val
             skip    == IF j = 0 THEN [err |-> "none", team |-> <<>>]
                                 ELSE ScanSlots_SkipSentinel(b, recordOff, j + 1, team)
         IN  IF ~RequireRange(b, monOff, HallOfFameMonEntrySize)
             THEN [err |-> "OutOfRange", team |-> team]
             ELSE IF species = 0 \/ species = 255
                  THEN ScanSlots_SkipSentinel(b, recordOff, j + 1, team)
             ELSE IF ~IsLikelyValidGen1SpeciesId(species) THEN skip
             ELSE IF level < 1 \/ level > 100 THEN skip
             ELSE IF ~NameLooksReasonable(name) THEN skip
             ELSE ScanSlots_SkipSentinel(b, recordOff, j + 1,
                            Append(team, [speciesId |-> species, level |-> level,
                                          name |-> name]))

\* Faulty variant of ScanSlots: the level is read from byte 13 of the slot.
RECURSIVE ScanSlots_LevelFromTail(_, _, _, _)
ScanSlots_LevelFromTail(b, recordOff, j, team) ==
    IF j >= HallOfFameMonsPerRecord THEN [err |-> "none", team |-> team]
    ELSE LET monOff  == recordOff + j * HallOfFameMonEntrySize
             species == b[monOff + 1]
             level   == b[monOff + 14]
             name    == (CHOOSE d \in DecodeName(b, monOff + 2, 11) : TRUE).val
             skip    == IF j = 0 THEN [err |-> "none", team |-> <<>>]
                                 ELSE ScanSlots_LevelFromTail(b, recordOff, j + 1, team)
         IN  IF ~RequireRange(b, monOff, HallOfFameMonEntrySize)
             THEN [err |-> "OutOfRange", team |-> team]
             ELSE IF species = 0 \/ species = 255 THEN [err |-> "none", team |-> team]
             ELSE IF ~IsLikelyValidGen1SpeciesId(species) THEN skip
             ELSE IF level < 1 \/ level > 100 THEN skip
             ELSE IF ~NameLooksReasonable(name) THEN skip
             ELSE ScanSlots_LevelFromTail(b, recordOff, j + 1,
                            Append(team, [speciesId |-> species, level |-> level,
                                          name |-> name]))

\* The loop over the member slots j..5 of the record at recordOff; team is
\* entry.team so far.  Returns [err, team].
RECURSIVE ScanSlots(_, _, _, _)
ScanSlots(b, recordOff, j, team) ==
    IF j >= HallOfFameMonsPerRecord THEN [err |-> "none", team |-> team]
    ELSE LET monOff  == recordOff + j * HallOfFameMonEntrySize
             species == b[monOff + 1]
             level   == b[monOff + 2]
             name    == (CHOOSE d \in DecodeName(b, monOff + 2, 11) : TRUE).val
             skip    == IF j = 0 THEN [err |-> "none", team |-> <<>>]
                                 ELSE ScanSlots(b, recordOff, j + 1, team)
         IN  IF ~RequireRange(b, monOff, HallOfFameMonEntrySize)
             THEN [err |-> "OutOfRange", team |-> team]
             ELSE IF species = 0 \/ species = 255 THEN [err |-> "none", team |-> team]
             ELSE IF ~IsLikelyValidGen1SpeciesId(species) THEN skip
             ELSE IF level < 1 \/ level > 100 THEN skip
             ELSE IF ~NameLooksReasonable(name) THEN skip
             ELSE ScanSlots(b, recordOff, j + 1,
                            Append(team, [speciesId |-> species, level |-> level,
                                          name |-> name]))

\* One pass of the loop over the records: record i, scanned.  Returns
\* [err, valid], valid being what the pass appends to the list.
ScanRecord(b, i) ==
    LET recordOff == HallOfFameOff + i * HallOfFameRecordSize
        t         == ScanSlots(b, recordOff, 0, <<>>)
    IN  IF ~RequireRange(b, recordOff, HallOfFameRecordSize)
        THEN [err |-> "OutOfRange", valid |-> <<>>]
        ELSE IF t.err # "none" THEN [err |-> t.err, valid |-> <<>>]
        ELSE IF Len(t.team) > 0
             THEN [err |-> "none", valid |-> <<[entryIndex |-> i + 1, team |-> t.team]>>]
             ELSE [err |-> "none", valid |-> <<>>]

\* The passes for the records lo..hi-1 in order, by halves: the first
\* pass that throws ends the loop, otherwise the lists are appended in
\* record order.
RECURSIVE ScanRange(_, _, _)
ScanRange(b, lo, hi) ==
    IF hi - lo <= 1 THEN ScanRecord(b, lo)
    ELSE LET mid == (lo + hi) \div 2
             l   == ScanRange(b, lo, mid)
             r   == ScanRange(b, mid, hi)
         IN  IF l.err # "none" THEN l
             ELSE [err |-> r.err, valid |-> l.valid \o r.valid]

\* The loop over the records i..49; valid is the list kept so far.
\* Returns [err, valid].
ScanRecords(b, i, valid) ==
    LET s == ScanRange(b, i, HallOfFameMaxRecords)
    IN  [err |-> s.err, valid |-> valid \o s.valid]

\* The last loop of GetHallOfFame: entries valid[i..] are renumbered by
\* their position in out and moved to it (i is 0-based).
\* Faulty variant of WindowLoop: the entries keep their scan indices.
RECURSIVE WindowLoop_KeepsScanIndex(_, _, _)
WindowLoop_KeepsScanIndex(valid, i, out) ==
    IF i >= Len(valid) THEN out
    ELSE WindowLoop_KeepsScanIndex(valid, i + 1, Append(out, valid[i + 1]))

RECURSIVE WindowLoop(_, _, _)
WindowLoop(valid, i, out) ==
    IF i >= Len(valid) THEN out
    ELSE WindowLoop(valid, i + 1,
                    Append(out, [valid[i + 1] EXCEPT !.entryIndex = Len(out) + 1]))

\* Faulty variant of HallOfFameWindow: the first countHint entries are kept.
HallOfFameWindow_First(valid, countHint) ==
    IF countHint = 0 THEN <<>>
    ELSE [i \in 1..Min(Len(valid), countHint) |-> [valid[i] EXCEPT !.entryIndex = i]]

\* Faulty variant of HallOfFameWindow: a hint of 0 shows every entry.
HallOfFameWindow_ZeroShowsAll(valid, countHint) ==
    IF countHint = 0 \/ Len(valid) <= countHint
    THEN [i \in 1..Len(valid) |-> [valid[i] EXCEPT !.entryIndex = i]]
    ELSE WindowLoop(valid, Len(valid) - countHint, <<>>)

\* What GetHallOfFame returns for the scanned list and the clamped hint.
HallOfFameWindow(valid, countHint) ==
    IF countHint = 0 THEN <<>>
    ELSE IF Len(valid) <= countHint
         THEN [i \in 1..Len(valid) |-> [valid[i] EXCEPT !.entryIndex = i]]
         ELSE WindowLoop(valid, Len(valid) - countHint, <<>>)

\* Faulty variant of GetHallOfFame: a first record that is neither empty
\* nor plausible is reported as an error.
GetHallOfFame_FailsOnJunk(b) ==
    LET h == ReadU8(b, HallOfFameRecordCountOff)
    IN  IF h.err # "none" THEN h
        ELSE IF ~RequireRange(b, HallOfFameOff, HallOfFameLen)
             THEN Ret("OutOfRange", NoVal, b, TRUE)
        ELSE IF b[HallOfFameOff + 1] \notin {0, 255}
                /\ ~IsLikelyValidGen1SpeciesId(b[HallOfFameOff + 1])
             THEN Ret("InvalidArgument", NoVal, b, TRUE)
        ELSE LET countHint == Clamp(h.val, 0, HallOfFameMaxRecords)
                 scan      == ScanRecords(b, 0, <<>>)
             IN  IF scan.err # "none" THEN Ret(scan.err, NoVal, b, TRUE)
                 ELSE Ret("none", HallOfFameWindow(scan.valid, countHint), b, TRUE)

GetHallOfFame(b) ==
    LET h == ReadU8(b, HallOfFameRecordCountOff)
    IN  IF h.err # "none" THEN h
        ELSE IF ~RequireRange(b, HallOfFameOff, HallOfFameLen)
             THEN Ret("OutOfRange", NoVal, b, TRUE)
        ELSE LET countHint == Clamp(h.val, 0, HallOfFameMaxRecords)
                 scan      == ScanRecords(b, 0, <<>>)
             IN  IF scan.err # "none" THEN Ret(scan.err, NoVal, b, TRUE)
                 ELSE Ret("none", HallOfFameWindow(scan.valid, countHint), b, TRUE)

(***************************************************************************)
(* Calls.  Every action is one call on the buffer: it records the call and *)
(* its outcome and leaves the buffer as the call left it.                  *)
(***************************************************************************)

NoOp == Op("none", 0, 0, NoVal, 0)

\* No call of the specification touches the disk.
NoFiles == <<>>

NoRes == [err |-> "none", val |-> NoVal, acc |-> FALSE]

Do(o, r) ==
    /\ bytes' = r.b
    /\ pre' = bytes
    /\ op' = o
    /\ res' = [err |-> r.err, val |-> r.val, acc |-> r.acc]
    /\ steps' = steps + 1
    /\ files' = files

(***************************************************************************)
(* SpecBuffer: the accessors, the codecs and the layout helpers on small    *)
(* buffers.                                                                *)
(***************************************************************************)

\* The longest buffer: long enough for every multi-byte accessor to fit at
\* offset 0 and to overrun at offset 1.
MaxSize == 3

\* Calls made on one buffer.
MaxBufferCalls == 1

\* Byte values a loaded buffer holds: 0x00, 0x91 (the letter R, the BCD
\* digits 9 and 1) and 0xFF (no character of a name, no BCD byte).
InitBytes == {0, 145, 255}

Offsets == 0..(MaxSize + 1)

Lengths == 0..MaxSize

BitIndexes == {0, 3, 7, 8}

U8Values == {0, 60}

\* 0x1234, 0xFF00
U16Values == {4660, 65280}

\* 0xABCDEF, 0x010203, and a u32 with bits above the low 24: 0x01ABCDEF
U24Values == {11259375, 66051, 28036591}

\* "", "a", "Ab 1", "!"
Names == {<<>>, <<97>>, <<65, 98, 32, 49>>, <<33>>}

Bcd3Values == {0, 123456, 999999, 1000000}

Bcd2Values == {1234, 9999, 10000}

BankArgs == 1..4

BoxArgs == 0..13

InitBuffer ==
    /\ bytes \in UNION {[1..n -> InitBytes] : n \in 0..MaxSize}
    /\ pre = bytes
    /\ op = NoOp
    /\ res = NoRes
    /\ steps = 0
    /\ files = NoFiles

CallReadU8 ==
    /\ steps < MaxBufferCalls
    /\ \E off \in Offsets : Do(Op("ReadU8", off, 1, NoVal, 0), ReadU8(bytes, off))

CallReadU16LE ==
    /\ steps < MaxBufferCalls
    /\ \E off \in Offsets : Do(Op("ReadU16LE", off, 2, NoVal, 0), ReadU16LE(bytes, off))

CallReadU24BE ==
    /\ steps < MaxBufferCalls
    /\ \E off \in Offsets : Do(Op("ReadU24BE", off, 3, NoVal, 0), ReadU24BE(bytes, off))

CallWriteU8 ==
    /\ steps < MaxBufferCalls
    /\ \E off \in Offsets, v \in U8Values :
          Do(Op("WriteU8", off, 1, v, 0), WriteU8(bytes, off, v))

CallWriteU16LE ==
    /\ steps < MaxBufferCalls
    /\ \E off \in Offsets, v \in U16Values :
          Do(Op("WriteU16LE", off, 2, v, 0), WriteU16LE(bytes, off, v))

CallWriteU24BE ==
    /\ steps < MaxBufferCalls
    /\ \E off \in Offsets, v \in U24Values :
          Do(Op("WriteU24BE", off, 3, v, 0), WriteU24BE(bytes, off, v))

CallGetBit ==
    /\ steps < MaxBufferCalls
    /\ \E off \in Offsets, i \in BitIndexes :
          Do(Op("GetBit", off, 1, NoVal, i), GetBit(bytes, off, i))

CallSetBit ==
    /\ steps < MaxBufferCalls
    /\ \E off \in Offsets, i \in BitIndexes, v \in BOOLEAN :
          Do(Op("SetBit", off, 1, v, i), SetBit(bytes, off, i, v))

CallSlice ==
    /\ steps < MaxBufferCalls
    /\ \E off \in Offsets, len \in Lengths :
          \E r \in Slice(bytes, off, len) : Do(Op("Slice", off, len, NoVal, 0), r)

CallDecodeName ==
    /\ steps < MaxBufferCalls
    /\ \E off \in Offsets, len \in Lengths :
          \E r \in DecodeName(bytes, off, len) : Do(Op("DecodeName", off, len, NoVal, 0), r)

CallEncodeName ==
    /\ steps < MaxBufferCalls
    /\ \E off \in Offsets, len \in Lengths, name \in Names :
          Do(Op("EncodeName", off, len, name, 0), EncodeName(bytes, off, len, name))

CallReadBcd3 ==
    /\ steps < MaxBufferCalls
    /\ \E off \in Offsets : Do(Op("ReadBcd3", off, 3, NoVal, 0), ReadBcd3(bytes, off))

CallWriteBcd3 ==
    /\ steps < MaxBufferCalls
    /\ \E off \in Offsets, v \in Bcd3Values :
          Do(Op("WriteBcd3", off, 3, v, 0), WriteBcd3(bytes, off, v))

CallReadBcd2 ==
    /\ steps < MaxBufferCalls
    /\ \E off \in Offsets : Do(Op("ReadBcd2", off, 2, NoVal, 0), ReadBcd2(bytes, off))

CallWriteBcd2 ==
    /\ steps < MaxBufferCalls
    /\ \E off \in Offsets, v \in Bcd2Values :
          Do(Op("WriteBcd2", off, 2, v, 0), WriteBcd2(bytes, off, v))

CallBoxBaseOffset ==
    /\ steps < MaxBufferCalls
    /\ \E i \in BoxArgs :
          LET r == BoxBaseOffsetByIndex1to12(i)
          IN  Do(Op("BoxBaseOffsetByIndex1to12", 0, 0, NoVal, i),
                 Ret(r.err, r.val, bytes, FALSE))

CallBankAllChecksumOffset ==
    /\ steps < MaxBufferCalls
    /\ \E i \in BoxArgs :
          LET r == BankAllChecksumOffsetForBoxIndex1to12(i)
          IN  Do(Op("BankAllChecksumOffsetForBoxIndex1to12", 0, 0, NoVal, i),
                 Ret(r.err, r.val, bytes, FALSE))

CallBankPerBoxChecksumsBaseOffset ==
    /\ steps < MaxBufferCalls
    /\ \E i \in BoxArgs :
          LET r == BankPerBoxChecksumsBaseOffsetForBoxIndex1to12(i)
          IN  Do(Op("BankPerBoxChecksumsBaseOffsetForBoxIndex1to12", 0, 0, NoVal, i),
                 Ret(r.err, r.val, bytes, FALSE))

NextBuffer ==
    \/ CallReadU8
    \/ CallReadU16LE
    \/ CallReadU24BE
    \/ CallWriteU8
    \/ CallWriteU16LE
    \/ CallWriteU24BE
    \/ CallGetBit
    \/ CallSetBit
    \/ CallSlice
    \/ CallDecodeName
    \/ CallEncodeName
    \/ CallReadBcd3
    \/ CallWriteBcd3
    \/ CallReadBcd2
    \/ CallWriteBcd2
    \/ CallBoxBaseOffset
    \/ CallBankAllChecksumOffset
    \/ CallBankPerBoxChecksumsBaseOffset

SpecBuffer == InitBuffer /\ [][NextBuffer]_vars

(***************************************************************************)
(* SpecChecksum: the checksum routines and GetBoxStats on save buffers of  *)
(* the expected size and on buffers cut short.                             *)
(***************************************************************************)

MaxChecksumCalls == 1

\* Empty; cut just before and just after the stored main checksum byte; cut
\* just before the stored bank-2 checksum byte; the expected size.
ChecksumSizes ==
    {0, MainChecksumOff, MainChecksumOff + 1, Bank2AllChecksumOff, ExpectedSize}

\* A buffer whose byte at offset i is i mod 251.
Ramp(n) == SubSeq([i \in 1..n |-> (i - 1) % 251], 1, n)

\* The byte at offset off after every repair has run on b: a stored
\* checksum byte becomes the checksum computed over b (no checksummed range
\* holds a stored checksum byte, and a stored byte inside the buffer has its
\* whole range inside the buffer); any other byte stays.
RepairedByte(b, off) ==
    IF off = MainChecksumOff THEN ComputeMain(b).val
    ELSE IF off = Bank2AllChecksumOff THEN ComputeBankAll(b, 2).val
    ELSE IF off = Bank3AllChecksumOff THEN ComputeBankAll(b, 3).val
    ELSE IF off \in Bank2BoxChecksumsOff..(Bank2BoxChecksumsOff + 5)
         THEN ComputeBox(b, off - Bank2BoxChecksumsOff + 1).val
    ELSE IF off \in Bank3BoxChecksumsOff..(Bank3BoxChecksumsOff + 5)
         THEN ComputeBox(b, off - Bank3BoxChecksumsOff + 7).val
    ELSE b[off + 1]

Repaired(b) == SubSeq([i \in 1..Len(b) |-> RepairedByte(b, i - 1)], 1, Len(b))

\* The contents a loaded file may have: all zero, a ramp, a ramp whose
\* checksums are all in order.
ContentKinds == {"zero", "ramp", "repaired"}

Contents(kind, n) ==
    CASE kind = "zero" -> Filled(n, 0)
      [] kind = "ramp" -> Ramp(n)
      [] kind = "repaired" -> Repaired(Ramp(n))

InitChecksum ==
    /\ \E n \in ChecksumSizes, kind \in ContentKinds : bytes = Contents(kind, n)
    /\ pre = bytes
    /\ op = NoOp
    /\ res = NoRes
    /\ steps = 0
    /\ files = NoFiles

CallComputeMain ==
    /\ steps < MaxChecksumCalls
    /\ Do(Op("ComputeMain", 0, 0, NoVal, 0), ComputeMain(bytes))

CallValidateMain ==
    /\ steps < MaxChecksumCalls
    /\ Do(Op("ValidateMain", 0, 0, NoVal, 0), ValidateMain(bytes))

CallHasValidMainChecksum ==
    /\ steps < MaxChecksumCalls
    /\ Do(Op("HasValidMainChecksum", 0, 0, NoVal, 0), HasValidMainChecksum(bytes))

CallFixMain ==
    /\ steps < MaxChecksumCalls
    /\ Do(Op("FixMain", 0, 0, NoVal, 0), FixMain(bytes))

CallComputeBankAll ==
    /\ steps < MaxChecksumCalls
    /\ \E k \in BankArgs : Do(Op("ComputeBankAll", 0, 0, NoVal, k), ComputeBankAll(bytes, k))

CallValidateBankAll ==
    /\ steps < MaxChecksumCalls
    /\ \E k \in BankArgs : Do(Op("ValidateBankAll", 0, 0, NoVal, k), ValidateBankAll(bytes, k))

CallFixBankAll ==
    /\ steps < MaxChecksumCalls
    /\ \E k \in BankArgs : Do(Op("FixBankAll", 0, 0, NoVal, k), FixBankAll(bytes, k))

CallComputeBox ==
    /\ steps < MaxChecksumCalls
    /\ \E i \in BoxArgs : Do(Op("ComputeBox", 0, 0, NoVal, i), ComputeBox(bytes, i))

CallValidateBox ==
    /\ steps < MaxChecksumCalls
    /\ \E i \in BoxArgs : Do(Op("ValidateBox", 0, 0, NoVal, i), ValidateBox(bytes, i))

CallFixBox ==
    /\ steps < MaxChecksumCalls
    /\ \E i \in BoxArgs : Do(Op("FixBox", 0, 0, NoVal, i), FixBox(bytes, i))

CallGetBoxStats ==
    /\ steps < MaxChecksumCalls
    /\ \E i \in BoxArgs : Do(Op("GetBoxStats", 0, 0, NoVal, i), GetBoxStats(bytes, i))

NextChecksum ==
    \/ CallComputeMain
    \/ CallValidateMain
    \/ CallHasValidMainChecksum
    \/ CallFixMain
    \/ CallComputeBankAll
    \/ CallValidateBankAll
    \/ CallFixBankAll
    \/ CallComputeBox
    \/ CallValidateBox
    \/ CallFixBox
    \/ CallGetBoxStats

SpecChecksum == InitChecksum /\ [][NextChecksum]_vars

(***************************************************************************)
(* SpecHallOfFame: GetHallOfFame on buffers whose Hall of Fame block holds *)
(* a few records and whose count byte holds a hint.                        *)
(***************************************************************************)

NumRecords == 3

MaxScannerCalls == 1

\* Empty; cut just before the count byte; the shortest buffer that holds
\* the block and the count byte.
ScannerSizes == {0, HallOfFameRecordCountOff, HallOfFameRecordCountOff + 1}

Hints == {0, 1, 2, 50, 51, 255}

\* The records that get content: the first ones and the last of the block.
RecordPositions == (0..(NumRecords - 2)) \cup {HallOfFameMaxRecords - 1}

RecordTemplates == {"empty", "one", "two", "junk", "gap"}

\* The 13 meaningful bytes of a member slot: species, level, 11 name bytes.
SlotBytes(species, level, name) ==
    <<species, level>> \o name \o Filled(11 - Len(name), 0)

\* A member that passes every check, different for every record and slot:
\* a two-letter name and its terminator.
GoodSlot(p, j) ==
    SlotBytes(((p * 6 + j) % 151) + 1, ((p + j) % 100) + 1,
              <<128 + (p % 26), 128 + j, 80>>)

\* A member whose species byte (200) is no species and no end marker.
JunkSlot(p, j) == SlotBytes(200, ((p + j) % 100) + 1, <<128 + (p % 26), 128 + j, 80>>)

\* The member slots of record p under template t, from slot 0 on.
RecordSlots(t, p) ==
    IF t = "one" THEN <<GoodSlot(p, 0)>>
    ELSE IF t = "two" THEN <<GoodSlot(p, 0), GoodSlot(p, 1)>>
    ELSE IF t = "junk" THEN <<JunkSlot(p, 0), GoodSlot(p, 1)>>
    ELSE IF t = "gap" THEN <<GoodSlot(p, 0), JunkSlot(p, 1), GoodSlot(p, 2)>>
    ELSE <<>>

\* b with the bytes bs at offset off (b itself when they do not fit).
Overlay(b, off, bs) ==
    IF off + Len(bs) > Len(b) THEN b
    ELSE SubSeq(b, 1, off) \o bs \o SubSeq(b, off + Len(bs) + 1, Len(b))

RECURSIVE WithSlots(_, _, _, _)
WithSlots(b, p, slots, j) ==
    IF j >= Len(slots) THEN b
    ELSE WithSlots(Overlay(b, HallOfFameOff + p * HallOfFameRecordSize
                                + j * HallOfFameMonEntrySize, slots[j + 1]),
                   p, slots, j + 1)

RECURSIVE WithRecords(_, _, _)
WithRecords(b, f, todo) ==
    IF todo = {} THEN b
    ELSE LET p == CHOOSE x \in todo : TRUE
         IN  WithRecords(WithSlots(b, p, RecordSlots(f[p], p), 0), f, todo \ {p})

\* What the bytes no template writes hold: zero, 0x64 (a plausible species
\* and level with a name of '?' only) or 0xFF.
FillBytes == {0, 100, 255}

\* A template for every record that gets content; the one with a junk
\* slot between two members goes to the last record of the block only.
RecordFillings ==
    {f \in [RecordPositions -> RecordTemplates] :
        \A p \in RecordPositions : f[p] = "gap" => p = HallOfFameMaxRecords - 1}

InitHallOfFame ==
    /\ \E n \in ScannerSizes, fill \in FillBytes, hint \in Hints,
          f \in RecordFillings :
          bytes = Overlay(WithRecords(Filled(n, fill), f, RecordPositions),
                          HallOfFameRecordCountOff, <<hint>>)
    /\ pre = bytes
    /\ op = NoOp
    /\ res = NoRes
    /\ steps = 0
    /\ files = NoFiles

CallGetHallOfFame ==
    /\ steps < MaxScannerCalls
    /\ Do(Op("GetHallOfFame", 0, 0, NoVal, 0), GetHallOfFame(bytes))

NextHallOfFame == CallGetHallOfFame

SpecHallOfFame == InitHallOfFame /\ [][NextHallOfFame]_vars

(***************************************************************************)
(* SpecRecordScan: GetHallOfFame on a buffer in which one record of the    *)
(* Hall of Fame block holds members of every kind the slot loop tells      *)
(* apart, and every other record is empty.                                 *)
(***************************************************************************)

\* The leading member slots of the record that get content; the slots
\* after them hold zero bytes.
NumSlots == 3

\* The record that gets content: the first or the last of the block.
ScanPositions == {0, HallOfFameMaxRecords - 1}

\* What a member slot holds.  "good", "thirdq" and "full" pass every check.
SlotKinds ==
    {"good", "end00", "endFF", "species", "level0", "level101",
     "noname", "halfq", "thirdq", "spaces", "full"}

\* The name field of a slot of kind k in slot j: the letter of the slot,
\* then what the kind asks for (0x01 decodes to '?', 0x7F to a space).
SlotName(k, j) ==
    CASE k = "noname" -> <<80>>
      [] k = "halfq"  -> <<128 + j, 1, 80>>
      [] k = "thirdq" -> <<128 + j, 128 + j, 1, 80>>
      [] k = "spaces" -> <<127, 127, 80>>
      [] k = "full"   -> Filled(11, 128 + j)
      [] OTHER        -> <<128 + j, 128 + j, 80>>

\* The 13 meaningful bytes of slot j of record p under kind k.
KindSlot(k, p, j) ==
    LET species == CASE k = "end00" -> 0
                     [] k = "endFF" -> 255
                     [] k = "species" -> 152
                     [] OTHER -> ((p * 6 + j) % 151) + 1
        level   == CASE k = "level0" -> 0
                     [] k = "level101" -> 101
                     [] OTHER -> 100 - j
    IN  SlotBytes(species, level, SlotName(k, j))

InitRecordScan ==
    /\ \E p \in ScanPositions, ks \in [1..NumSlots -> SlotKinds] :
          bytes = Overlay(WithSlots(Filled(HallOfFameRecordCountOff + 1, 0), p,
                                    [j \in 1..NumSlots |-> KindSlot(ks[j], p, j - 1)], 0),
                          HallOfFameRecordCountOff, <<HallOfFameMaxRecords>>)
    /\ pre = bytes
    /\ op = NoOp
    /\ res = NoRes
    /\ steps = 0
    /\ files = NoFiles

CallScanRecord ==
    /\ steps < MaxScannerCalls
    /\ Do(Op("GetHallOfFame", 0, 0, NoVal, 0), GetHallOfFame(bytes))

NextRecordScan == CallScanRecord

SpecRecordScan == InitRecordScan /\ [][NextRecordScan]_vars

(***************************************************************************)
(* SpecBcdWrite: one WriteBcd3 or WriteBcd2 on a fresh buffer.             *)
(***************************************************************************)

\* The longest buffer the packed-decimal calls are made on.
MaxBcdSize == 3

BcdOffsets == 0..MaxBcdSize

\* The decimal digits the six-digit values are built from.
BcdDigits == {0, 1, 5, 9}

\* u32 arguments: every six-digit value over BcdDigits, every value of one
\* repeated digit, the first value too large, and larger ones up to 2^31-1.
Bcd3Args ==
    { d[1] * 100000 + d[2] * 10000 + d[3] * 1000 + d[4] * 100 + d[5] * 10 + d[6] :
        d \in [1..6 -> BcdDigits] }
    \cup { d * 111111 : d \in 0..9 }
    \cup { 1000000, 1000001, 16777215, 2147483647 }

\* u16 arguments: every value up to the first one too large, and 2^16-1.
Bcd2Args == (0..10000) \cup {65535}

InitBcdWrite ==
    /\ \E n \in 0..MaxBcdSize, fill \in {0, 255} : bytes = Filled(n, fill)
    /\ pre = bytes
    /\ op = NoOp
    /\ res = NoRes
    /\ steps = 0
    /\ files = NoFiles

CallWriteBcd3Arg ==
    /\ steps = 0
    /\ \E off \in BcdOffsets, v \in Bcd3Args :
          Do(Op("WriteBcd3", off, 3, v, 0), WriteBcd3(bytes, off, v))

CallWriteBcd2Arg ==
    /\ steps = 0
    /\ \E off \in BcdOffsets, v \in Bcd2Args :
          Do(Op("WriteBcd2", off, 2, v, 0), WriteBcd2(bytes, off, v))

NextBcdWrite ==
    \/ CallWriteBcd3Arg
    \/ CallWriteBcd2Arg

SpecBcdWrite == InitBcdWrite /\ [][NextBcdWrite]_vars

(***************************************************************************)
(* SpecBcdRead: one ReadBcd3 or ReadBcd2 on a buffer of arbitrary bytes.   *)
(***************************************************************************)

\* Stored bytes: every nibble 0..15 as the high nibble and as the low
\* nibble (0x0F, 0x1E, ... 0xF0), and 0x99.
BcdBytes == { 16 * h + (15 - h) : h \in 0..15 } \cup {153}

InitBcdRead ==
    /\ \E n \in 0..MaxBcdSize : bytes \in [1..n -> BcdBytes]
    /\ pre = bytes
    /\ op = NoOp
    /\ res = NoRes
    /\ steps = 0
    /\ files = NoFiles

CallReadBcd3Stored ==
    /\ steps = 0
    /\ \E off \in BcdOffsets : Do(Op("ReadBcd3", off, 3, NoVal, 0), ReadBcd3(bytes, off))

CallReadBcd2Stored ==
    /\ steps = 0
    /\ \E off \in BcdOffsets : Do(Op("ReadBcd2", off, 2, NoVal, 0), ReadBcd2(bytes, off))

NextBcdRead ==
    \/ CallReadBcd3Stored
    \/ CallReadBcd2Stored

SpecBcdRead == InitBcdRead /\ [][NextBcdRead]_vars

(***************************************************************************)
(* SpecText: one EncodeName or DecodeName on a buffer that holds a name    *)
(* field.                                                                  *)
(***************************************************************************)

\* The longest buffer of arbitrary text bytes.
MaxTextSize == 3

\* The length of a name field of the save file, terminator included.
TrainerNameLen == 11

\* Stored bytes: the terminator, the space, the ends of the letter and
\* digit ranges and the bytes next to them, 0x00 and 0xFF.
TextBytes == {80, 127, 128, 153, 154, 160, 169, 170, 0, 255}

\* Twelve bytes, the letters A, B, C ... with a terminator at position t
\* (none at all when t = 12).
FieldWithTerminator(t) ==
    SubSeq([i \in 1..(TrainerNameLen + 1) |-> IF i = t + 1 THEN 80 ELSE 128 + i - 1],
           1, TrainerNameLen + 1)

TextBuffers ==
    UNION {[1..n -> TextBytes] : n \in 0..MaxTextSize}
    \cup {FieldWithTerminator(t) : t \in 0..(TrainerNameLen + 1)}
    \cup {Filled(TrainerNameLen, 255), Filled(TrainerNameLen + 1, 0)}

TextOffsets == {0, 1}

FieldLens == {0, 1, 2, 3, TrainerNameLen, TrainerNameLen + 1}

\* "", "A", "z", "0", "9", " ", "Red 9", "ash ketchu", "ABCDEFGHIJ",
\* "0123456789", "ABCDEFGHIJK", "abcdefghijkl", "a!b", "@[`{", "/:"
TextNames ==
    {<<>>, <<65>>, <<122>>, <<48>>, <<57>>, <<32>>,
     <<82, 101, 100, 32, 57>>,
     <<97, 115, 104, 32, 107, 101, 116, 99, 104, 117>>,
     <<65, 66, 67, 68, 69, 70, 71, 72, 73, 74>>,
     <<48, 49, 50, 51, 52, 53, 54, 55, 56, 57>>,
     <<65, 66, 67, 68, 69, 70, 71, 72, 73, 74, 75>>,
     <<97, 98, 99, 100, 101, 102, 103, 104, 105, 106, 107, 108>>,
     <<97, 33, 98>>, <<64, 91, 96, 123>>, <<47, 58>>}

InitText ==
    /\ bytes \in TextBuffers
    /\ pre = bytes
    /\ op = NoOp
    /\ res = NoRes
    /\ steps = 0
    /\ files = NoFiles

CallEncodeNameField ==
    /\ steps = 0
    /\ \E off \in TextOffsets, len \in FieldLens, name \in TextNames :
          Do(Op("EncodeName", off, len, name, 0), EncodeName(bytes, off, len, name))

CallDecodeNameField ==
    /\ steps = 0
    /\ \E off \in TextOffsets, len \in FieldLens :
          \E r \in DecodeName(bytes, off, len) : Do(Op("DecodeName", off, len, NoVal, 0), r)

NextText ==
    \/ CallEncodeNameField
    \/ CallDecodeNameField

SpecText == InitText /\ [][NextText]_vars

(***************************************************************************)
(* Properties of the SaveBuffer accessors (checked under SpecBuffer).      *)
(***************************************************************************)

(***************************************************************************)
(* Edits of a loaded save: one write to a main-bank field or to a single   *)
(* byte of a checksummed region of a full-size buffer whose checksums are  *)
(* all in order, followed by repairs.                                      *)
(***************************************************************************)

MaxRepairsAfterEdit == 2

\* The loaded save: a ramp whose fifteen checksums are all in order.
LoadedSave == Repaired(Ramp(ExpectedSize))

\* Empty, five characters, twelve (cut to ten).
EditNames ==
    {<<>>, <<82, 101, 100, 32, 57>>,
     <<97, 98, 99, 100, 101, 102, 103, 104, 105, 106, 107, 108>>}

EditMoney == {0, 3000, 1000000}

EditCoins == {50, 9999, 10000}

EditBadges == {0, 255}

EditBits == {0, 7}

\* 0x1234, 0xFFFF
EditTrainerIds == {4660, 65535}

\* 0x010203, 0xFFFFFF
EditRawMoney == {66051, 16777215}

\* First and last byte of the main range and its stored byte; first byte of
\* box 1, last byte of box 6, the bank-2 all-checksum and the stored byte of
\* box 1; a byte inside box 12, the bank-3 all-checksum and the stored byte
\* of box 12.
OverwriteOffsets ==
    {MainChecksumStart, MainChecksumEnd, MainChecksumOff,
     Box1Off, Bank2AllChecksumOff - 1, Bank2AllChecksumOff, Bank2BoxChecksumsOff,
     Box12Off + 3, Bank3AllChecksumOff, Bank3BoxChecksumsOff + 5}

OverwriteValues == {0, 255}

RepairBoxArgs == {1, 12}

InitEdit ==
    /\ bytes = LoadedSave
    /\ pre = bytes
    /\ op = NoOp
    /\ res = NoRes
    /\ steps = 0
    /\ files = NoFiles

EditTrainerName ==
    /\ steps = 0
    /\ \E name \in EditNames :
          Do(Op("EncodeName", TrainerNameOff, TrainerNameLen, name, 0),
             EncodeName(bytes, TrainerNameOff, TrainerNameLen, name))

EditRivalName ==
    /\ steps = 0
    /\ \E name \in EditNames :
          Do(Op("EncodeName", RivalNameOff, RivalNameLen, name, 0),
             EncodeName(bytes, RivalNameOff, RivalNameLen, name))

EditMoneyField ==
    /\ steps = 0
    /\ \E v \in EditMoney :
          Do(Op("WriteBcd3", MoneyOff, 3, v, 0), WriteBcd3(bytes, MoneyOff, v))

EditCoinsField ==
    /\ steps = 0
    /\ \E v \in EditCoins :
          Do(Op("WriteBcd2", CoinsOff, 2, v, 0), WriteBcd2(bytes, CoinsOff, v))

EditBadgesByte ==
    /\ steps = 0
    /\ \E v \in EditBadges :
          Do(Op("WriteU8", BadgesOff, 1, v, 0), WriteU8(bytes, BadgesOff, v))

EditBadgeBit ==
    /\ steps = 0
    /\ \E i \in EditBits, v \in BOOLEAN :
          Do(Op("SetBit", BadgesOff, 1, v, i), SetBit(bytes, BadgesOff, i, v))

EditTrainerId ==
    /\ steps = 0
    /\ \E v \in EditTrainerIds :
          Do(Op("WriteU16LE", TrainerIdOff, 2, v, 0), WriteU16LE(bytes, TrainerIdOff, v))

EditMoneyBytes ==
    /\ steps = 0
    /\ \E v \in EditRawMoney :
          Do(Op("WriteU24BE", MoneyOff, 3, v, 0), WriteU24BE(bytes, MoneyOff, v))

OverwriteByte ==
    /\ steps = 0
    /\ \E off \in OverwriteOffsets, v \in OverwriteValues :
          Do(Op("WriteU8", off, 1, v, 0), WriteU8(bytes, off, v))

RepairMain ==
    /\ steps >= 1
    /\ steps <= MaxRepairsAfterEdit
    /\ Do(Op("FixMain", 0, 0, NoVal, 0), FixMain(bytes))

RepairBankAll ==
    /\ steps >= 1
    /\ steps <= MaxRepairsAfterEdit
    /\ \E k \in {2, 3} : Do(Op("FixBankAll", 0, 0, NoVal, k), FixBankAll(bytes, k))

RepairBox ==
    /\ steps >= 1
    /\ steps <= MaxRepairsAfterEdit
    /\ \E i \in RepairBoxArgs : Do(Op("FixBox", 0, 0, NoVal, i), FixBox(bytes, i))

NextEdit ==
    \/ EditTrainerName
    \/ EditRivalName
    \/ EditMoneyField
    \/ EditCoinsField
    \/ EditBadgesByte
    \/ EditBadgeBit
    \/ EditTrainerId
    \/ EditMoneyBytes
    \/ OverwriteByte
    \/ RepairMain
    \/ RepairBankAll
    \/ RepairBox

SpecEdit == InitEdit /\ [][NextEdit]_vars


(***************************************************************************)
(* FileManipulation::BackupFile on a directory tree that starts without    *)
(* backups, interleaved with rewrites of the original files.  The disk is  *)
(* reliable: an open or a copy fails only for a missing source or an       *)
(* existing target.                                                        *)
(***************************************************************************)

MaxFileCalls == 4

\* A directory entry: no file, or a file with its content.
Absent == [exists |-> FALSE, data |-> <<>>]

File(content) == [exists |-> TRUE, data |-> content]

\* A path: its directory and its file name, the name as the list of the
\* pieces it was built from.
Path(dir, filename) == [dir |-> dir, filename |-> filename]

\* The path of a call that returns none, and of the time before any call.
NoPath == Path("", <<>>)

\* dir / ("(BACKUP) " + filename)
MakeBackupPath(path) == Path(path.dir, <<"(BACKUP) ">> \o path.filename)

\* The save files the tool is pointed at.
InputPaths == {Path(d, <<n>>) : d \in {"", "saves"}, n \in {"red.sav"}}

DiskPaths == InputPaths \cup {MakeBackupPath(p) : p \in InputPaths}

\* File contents: empty, and two different saves.
FileContents == {<<>>, <<1>>, <<2>>}

\* A variant that copies over an existing backup.
BackupFile_Overwrites(f, path) ==
    LET backupPath == MakeBackupPath(path)
    IN  IF ~f[path].exists
        THEN [err |-> "runtime_error", val |-> NoPath, f |-> f]
        ELSE [err |-> "none", val |-> backupPath,
              f |-> [f EXCEPT ![backupPath] = f[path]]]

\* exists(backupPath) returns the path at once; otherwise copy_file with
\* copy_options::none, which fails when the source is missing.
BackupFile(f, path) ==
    LET backupPath == MakeBackupPath(path)
    IN  IF f[backupPath].exists
        THEN [err |-> "none", val |-> backupPath, f |-> f]
        ELSE IF ~f[path].exists
             THEN [err |-> "runtime_error", val |-> NoPath, f |-> f]
             ELSE [err |-> "none", val |-> backupPath,
                   f |-> [f EXCEPT ![backupPath] = f[path]]]

\* std::ofstream with trunc: the file is created or replaced.
WriteFile(f, path, content) ==
    [err |-> "none", val |-> NoPath, f |-> [f EXCEPT ![path] = File(content)]]

DoFile(o, r) ==
    /\ files' = r.f
    /\ op' = o
    /\ res' = [err |-> r.err, val |-> r.val, acc |-> FALSE]
    /\ steps' = steps + 1
    /\ UNCHANGED <<bytes, pre>>

InitBackup ==
    /\ bytes = <<>>
    /\ pre = <<>>
    /\ op = Op("none", 0, 0, NoPath, <<>>)
    /\ res = [err |-> "none", val |-> NoPath, acc |-> FALSE]
    /\ steps = 0
    /\ files \in {f \in [DiskPaths -> {File(c) : c \in FileContents} \cup {Absent}] :
                     \A p \in InputPaths : f[MakeBackupPath(p)] = Absent}

CallBackupFile ==
    /\ steps < MaxFileCalls
    /\ \E path \in InputPaths :
          DoFile(Op("BackupFile", 0, 0, path, <<>>), BackupFile(files, path))

\* The game or the user rewrites a save file.
CallWriteFile ==
    /\ steps < MaxFileCalls
    /\ \E path \in InputPaths, content \in FileContents :
          DoFile(Op("WriteFile", 0, 0, path, content), WriteFile(files, path, content))

NextBackup ==
    \/ CallBackupFile
    \/ CallWriteFile

SpecBackup == InitBackup /\ [][NextBackup]_vars


(***************************************************************************)
(* Sequences of repairs on a full-size buffer.                             *)
(***************************************************************************)

MaxRepairCalls == 2

\* A repaired ramp whose stored main checksum and stored checksum of box 7
\* were then changed.
Spoiled(n) ==
    LET r == Ramp(n)
    IN  SubSeq([i \in 1..n |->
                   IF i - 1 \in {MainChecksumOff, Bank3BoxChecksumsOff}
                   THEN (RepairedByte(r, i - 1) + 1) % 256
                   ELSE RepairedByte(r, i - 1)], 1, n)

\* A ramp with no checksum in order; a save with two checksums out of order.
RepairKinds == {"ramp", "spoiled"}

RepairContents(kind) ==
    CASE kind = "ramp" -> Ramp(ExpectedSize)
      [] kind = "spoiled" -> Spoiled(ExpectedSize)

InitRepair ==
    /\ \E kind \in RepairKinds : bytes = RepairContents(kind)
    /\ pre = bytes
    /\ op = NoOp
    /\ res = NoRes
    /\ steps = 0
    /\ files = NoFiles

SeqFixMain ==
    /\ steps < MaxRepairCalls
    /\ Do(Op("FixMain", 0, 0, NoVal, 0), FixMain(bytes))

SeqFixBankAll ==
    /\ steps < MaxRepairCalls
    /\ \E k \in {2, 3} : Do(Op("FixBankAll", 0, 0, NoVal, k), FixBankAll(bytes, k))

SeqFixBox ==
    /\ steps < MaxRepairCalls
    /\ \E i \in 1..12 : Do(Op("FixBox", 0, 0, NoVal, i), FixBox(bytes, i))

NextRepair ==
    \/ SeqFixMain
    \/ SeqFixBankAll
    \/ SeqFixBox

SpecRepair == InitRepair /\ [][NextRepair]_vars


AccessorNames ==
    {"ReadU8", "ReadU16LE", "ReadU24BE", "WriteU8", "WriteU16LE", "WriteU24BE",
     "GetBit", "SetBit", "Slice"}

MultiByteWrites == {"WriteU16LE", "WriteU24BE", "EncodeName", "WriteBcd2", "WriteBcd3"}

\* C1: every SaveBuffer accessor called with an offset and length such that
\* offset + length exceeds the buffer's size fails with OutOfRange and leaves
\* the buffer as it was.  (Fails: Slice(off, 0) with off > size returns.)
C1_OutOfRangeRejected ==
    (op.name \in AccessorNames /\ op.off + op.len > Size(pre))
        => (res.err = "OutOfRange" /\ bytes = pre)

\* C2: a multi-byte write whose target range starts inside the buffer and
\* extends past its end fails and leaves every byte unchanged.  (Fails:
\* WriteBcd2 and WriteBcd3 write byte by byte.)
C2_NoPartialWrite ==
    (op.name \in MultiByteWrites /\ op.off < Size(pre) /\ op.off + op.len > Size(pre))
        => (res.err # "none" /\ bytes = pre)

\* C3: read after write: for every in-range offset WriteU8, WriteU16LE and
\* WriteU24BE succeed and the matching read then returns the written 8-, 16-
\* or 24-bit value; SetBit(off, i, v) succeeds for i in 0..7 and GetBit(off, i)
\* then returns v.
C3_ReadAfterWrite ==
    /\ (op.name = "WriteU8" /\ op.off + 1 <= Size(pre))
          => /\ res.err = "none"
             /\ ReadU8(bytes, op.off).err = "none"
             /\ ReadU8(bytes, op.off).val = op.v
    /\ (op.name = "WriteU16LE" /\ op.off + 2 <= Size(pre))
          => /\ res.err = "none"
             /\ ReadU16LE(bytes, op.off).err = "none"
             /\ ReadU16LE(bytes, op.off).val = op.v
    /\ (op.name = "WriteU24BE" /\ op.off + 3 <= Size(pre))
          => /\ res.err = "none"
             /\ ReadU24BE(bytes, op.off).err = "none"
             /\ ReadU24BE(bytes, op.off).val = op.v % 16777216
    /\ (op.name = "SetBit" /\ op.off + 1 <= Size(pre) /\ op.idx <= 7)
          => /\ res.err = "none"
             /\ GetBit(bytes, op.off, op.idx).err = "none"
             /\ GetBit(bytes, op.off, op.idx).val = op.v

\* A 16-bit write of 0x1234 that went through and changed the buffer.
C3_Witness ==
    /\ op.name = "WriteU16LE"
    /\ op.v = 4660
    /\ res.err = "none"
    /\ bytes # pre
    /\ ReadU16LE(bytes, op.off).val = 4660

(***************************************************************************)
(* Properties of the checksum routines (checked under SpecChecksum).       *)
(***************************************************************************)

\* b[first] + ... + b[last] over buffer offsets.
RECURSIVE RangeSum(_, _, _)
RangeSum(b, first, last) ==
    IF first > last THEN 0
    ELSE IF first = last THEN b[first + 1]
    ELSE LET mid == (first + last) \div 2
         IN  RangeSum(b, first, mid) + RangeSum(b, mid + 1, last)

\* First byte of the block of box i: 0x4000 + (i-1)*0x462 for boxes 1..6,
\* 0x6000 + (i-7)*0x462 for boxes 7..12.
BoxFirst(i) == IF i <= 6 THEN 16384 + (i - 1) * 1122 ELSE 24576 + (i - 7) * 1122

\* Offset of the stored checksum byte of box i: 0x5A4D + (i-1) for boxes
\* 1..6, 0x7A4D + (i-7) for boxes 7..12.
BoxStored(i) == IF i <= 6 THEN 23117 + (i - 1) ELSE 31309 + (i - 7)

\* Offset of the stored all-checksum byte of bank k: 0x5A4C, 0x7A4C.
BankStored(k) == IF k = 2 THEN 23116 ELSE 31308

\* First byte of bank k: 0x4000, 0x6000.
BankFirst(k) == IF k = 2 THEN 16384 ELSE 24576

\* The last call was this routine with a valid bank or box index.
IsCall(main, bank, box) ==
    \/ op.name = main
    \/ op.name = bank /\ op.idx \in {2, 3}
    \/ op.name = box /\ op.idx \in 1..12

\* First and last offset of the range the last call sums, and the offset
\* of its stored byte, by the class (main, bank-all, per-box) of the call.
CallFirst ==
    IF op.name \in {"ComputeMain", "ValidateMain", "FixMain"} THEN 9624
    ELSE IF op.name \in {"ComputeBankAll", "ValidateBankAll", "FixBankAll"}
         THEN BankFirst(op.idx)
         ELSE BoxFirst(op.idx)

CallLast ==
    IF op.name \in {"ComputeMain", "ValidateMain", "FixMain"} THEN 13602
    ELSE IF op.name \in {"ComputeBankAll", "ValidateBankAll", "FixBankAll"}
         THEN BankStored(op.idx) - 1
         ELSE BoxFirst(op.idx) + 1122 - 1

CallStored ==
    IF op.name \in {"ComputeMain", "ValidateMain", "FixMain"} THEN 13603
    ELSE IF op.name \in {"ComputeBankAll", "ValidateBankAll", "FixBankAll"}
         THEN BankStored(op.idx)
         ELSE BoxStored(op.idx)

\* C4: each checksum compute returns 255 minus (the sum of the bytes of its
\* inclusive range modulo 256): 0x2598..0x3522 for main, the bank base up to
\* the byte before the bank's stored all-checksum byte for bank-all, the
\* 0x462 bytes of the box block for per-box; it succeeds on a full-size buffer.
C4_ChecksumValue ==
    IsCall("ComputeMain", "ComputeBankAll", "ComputeBox")
        => /\ Size(pre) = 32768 => res.err = "none"
           /\ res.err = "none" => res.val = 255 - (RangeSum(pre, CallFirst, CallLast) % 256)
           /\ bytes = pre

\* A per-box checksum of the last box over bytes that do not sum to 0.
C4_Witness ==
    /\ op.name = "ComputeBox"
    /\ op.idx = 12
    /\ res.err = "none"
    /\ res.val # 255
    /\ res.val = 255 - (RangeSum(pre, 30186, 31307) % 256)

\* C5: on a full-size buffer each repair succeeds, the matching validate
\* then returns true, and a second repair stores the same byte again.
C5_RepairValidates ==
    /\ (op.name = "FixMain" /\ Size(pre) = 32768)
          => /\ res.err = "none"
             /\ ValidateMain(bytes).err = "none"
             /\ ValidateMain(bytes).val = TRUE
             /\ FixMain(bytes).err = "none"
             /\ FixMain(bytes).b[CallStored + 1] = bytes[CallStored + 1]
    /\ (op.name = "FixBankAll" /\ op.idx \in {2, 3} /\ Size(pre) = 32768)
          => /\ res.err = "none"
             /\ ValidateBankAll(bytes, op.idx).err = "none"
             /\ ValidateBankAll(bytes, op.idx).val = TRUE
             /\ FixBankAll(bytes, op.idx).err = "none"
             /\ FixBankAll(bytes, op.idx).b[CallStored + 1] = bytes[CallStored + 1]
    /\ (op.name = "FixBox" /\ op.idx \in 1..12 /\ Size(pre) = 32768)
          => /\ res.err = "none"
             /\ ValidateBox(bytes, op.idx).err = "none"
             /\ ValidateBox(bytes, op.idx).val = TRUE
             /\ FixBox(bytes, op.idx).err = "none"
             /\ FixBox(bytes, op.idx).b[CallStored + 1] = bytes[CallStored + 1]

\* A main repair of a buffer whose main checksum did not validate.
C5_Witness ==
    /\ op.name = "FixMain"
    /\ res.err = "none"
    /\ ValidateMain(pre).err = "none"
    /\ ValidateMain(pre).val = FALSE
    /\ ValidateMain(bytes).val = TRUE

\* C6 as stated: each checksum validate returns a boolean and never fails,
\* even on a buffer too short for its range or its stored byte.
C6_ValidateNeverFails ==
    IsCall("ValidateMain", "ValidateBankAll", "ValidateBox")
        => (res.err = "none" /\ res.val \in BOOLEAN)

\* C6 amended: a checksum validate returns a boolean without failing when
\* the buffer holds its range and its stored byte (a mismatch is the result
\* false, not an error); on a shorter buffer it fails with OutOfRange; the
\* buffer is unchanged either way.
C6_ValidateFailsOnlyOutOfRange ==
    IsCall("ValidateMain", "ValidateBankAll", "ValidateBox")
        => /\ bytes = pre
           /\ IF Size(pre) > CallStored /\ Size(pre) > CallLast
              THEN /\ res.err = "none"
                   /\ res.val = (pre[CallStored + 1]
                                   = 255 - (RangeSum(pre, CallFirst, CallLast) % 256))
              ELSE res.err = "OutOfRange"

\* ValidateMain on a buffer that holds the whole main range but not the
\* stored byte.
C6_Witness ==
    /\ op.name = "ValidateMain"
    /\ Size(pre) = 13603
    /\ ComputeMain(pre).err = "none"
    /\ res.err = "OutOfRange"

\* C7: every routine taking a box or bank index fails with InvalidIndex
\* before any buffer access when the index is invalid, whatever the buffer,
\* and leaves the buffer unchanged.  (Fails: ValidateBankAll reads the
\* stored byte first.)
C7_InvalidIndexFirst ==
    (\/ op.name \in {"ComputeBankAll", "ValidateBankAll", "FixBankAll"} /\ op.idx \notin {2, 3}
     \/ op.name \in {"ComputeBox", "ValidateBox", "FixBox", "GetBoxStats"} /\ op.idx \notin 1..12)
        => (res.err = "InvalidIndex" /\ res.acc = FALSE /\ bytes = pre)

\* Whether two validate outcomes are the same.
SameOutcome(r1, r2) == r1.err = r2.err /\ r1.val = r2.val

\* C8: a repair changes at most its own stored byte; FixBox and FixBankAll
\* leave the stored main checksum byte and the result of ValidateMain as they
\* were; FixMain leaves every bank-all and per-box stored byte and validation
\* result as they were.
C8_RepairFrame ==
    /\ IsCall("FixMain", "FixBankAll", "FixBox")
          => (Size(pre) > CallStored => bytes = [pre EXCEPT ![CallStored + 1] = bytes[CallStored + 1]])
             /\ (Size(pre) <= CallStored => bytes = pre)
    /\ (IsCall("-", "FixBankAll", "FixBox") /\ res.err = "none")
          => /\ bytes[13603 + 1] = pre[13603 + 1]
             /\ SameOutcome(ValidateMain(bytes), ValidateMain(pre))
    /\ (op.name = "FixMain" /\ res.err = "none")
          => /\ \A k \in {2, 3} :
                   /\ Size(pre) > BankStored(k) => bytes[BankStored(k) + 1] = pre[BankStored(k) + 1]
                   /\ SameOutcome(ValidateBankAll(bytes, k), ValidateBankAll(pre, k))
             /\ \A i \in 1..12 :
                   /\ Size(pre) > BoxStored(i) => bytes[BoxStored(i) + 1] = pre[BoxStored(i) + 1]
                   /\ SameOutcome(ValidateBox(bytes, i), ValidateBox(pre, i))

\* A per-box repair that changed its stored byte on a buffer whose main
\* checksum does not validate, before or after.
C8_Witness ==
    /\ op.name = "FixBox"
    /\ op.idx = 7
    /\ res.err = "none"
    /\ bytes # pre
    /\ ValidateMain(bytes).val = FALSE

(***************************************************************************)
(* Properties of GetHallOfFame (checked under SpecHallOfFame).             *)
(***************************************************************************)

\* The count hint of buffer b, clamped to [0, 50].
HintOf(b) == Clamp(b[10318 + 1], 0, 50)

\* The valid records of buffer b in scan order.
ScannedOf(b) == ScanRecords(b, 0, <<>>).valid

\* C9: with hint the count byte clamped to [0, 50] and V the valid scanned
\* records in scan order, when hint > 0 the result is the last min(hint, |V|)
\* records of V, in scan order, with display indices 1..min(hint, |V|).
C9_Window ==
    (op.name = "GetHallOfFame" /\ res.err = "none" /\ HintOf(pre) > 0)
        => LET V == ScannedOf(pre)
               k == Min(HintOf(pre), Len(V))
           IN  /\ Len(res.val) = k
               /\ \A n \in 1..k :
                     /\ res.val[n].entryIndex = n
                     /\ res.val[n].team = V[Len(V) - k + n].team

\* Three valid records and a hint of 2: the last two are returned.
C9_Witness ==
    /\ op.name = "GetHallOfFame"
    /\ res.err = "none"
    /\ pre[10318 + 1] = 2
    /\ Len(ScannedOf(pre)) = 3
    /\ Len(res.val) = 2
    /\ res.val[1].team = ScannedOf(pre)[2].team
    /\ res.val[1].team # ScannedOf(pre)[1].team

\* C10: when the count byte at 0x284E is 0, GetHallOfFame returns an empty
\* list, however many valid records the block holds.
C10_ZeroHint ==
    (op.name = "GetHallOfFame" /\ res.err = "none" /\ pre[10318 + 1] = 0)
        => res.val = <<>>

\* A count byte of 0 over a block with three valid records.
C10_Witness ==
    /\ op.name = "GetHallOfFame"
    /\ res.err = "none"
    /\ pre[10318 + 1] = 0
    /\ Len(ScannedOf(pre)) = 3
    /\ res.val = <<>>

(***************************************************************************)
(* The per-record scan, read off the buffer slot by slot.                  *)
(***************************************************************************)

\* The record that holds content in a buffer of SpecRecordScan.
TestedRecord(b) ==
    CHOOSE p \in ScanPositions :
        \E i \in 1..96 : b[1432 + p * 96 + i] # 0

\* Offset of slot j of record p (0x0598 + 96 p + 16 j).
SlotOff(p, j) == 1432 + p * 96 + j * 16

\* The member slot j of record p would contribute.
MemberAt(b, p, j) ==
    [speciesId |-> b[SlotOff(p, j) + 1], level |-> b[SlotOff(p, j) + 2],
     name |-> (CHOOSE d \in DecodeName(b, SlotOff(p, j) + 2, 11) : TRUE).val]

IsSentinel(b, p, j) == MemberAt(b, p, j).speciesId \in {0, 255}

\* The first slot that holds a sentinel (6 when none does).
FirstSentinel(b, p) ==
    IF \E j \in 0..5 : IsSentinel(b, p, j)
    THEN CHOOSE j \in 0..5 : IsSentinel(b, p, j) /\ \A k \in 0..(j - 1) : ~IsSentinel(b, p, k)
    ELSE 6

\* A name the scanner takes: not empty, fewer than half of it '?', and
\* not spaces only.
NameTaken(s) ==
    /\ Len(s) > 0
    /\ 2 * Cardinality({i \in 1..Len(s) : s[i] = 63}) < Len(s)
    /\ \E i \in 1..Len(s) : s[i] # 32

\* Slot j passes the species, level and name checks.
SlotPasses(b, p, j) ==
    LET m == MemberAt(b, p, j)
    IN  m.speciesId \in 1..151 /\ m.level \in 1..100 /\ NameTaken(m.name)

\* The team GetHallOfFame returned for the one record that holds content.
TeamOf(r) == IF r.val = <<>> THEN <<>> ELSE r.val[1].team

ScanDone == op.name = "GetHallOfFame" /\ res.err = "none"

\* C11: a failed check at slot 0 (no sentinel there) discards the whole
\* record; with slot 0 accepted, a failed check at a slot 1..5 drops that
\* slot only: the team is every slot before the first sentinel that passes
\* its checks, in slot order.
C11_SlotFailure ==
    ScanDone =>
        LET p == TestedRecord(pre)
            e == FirstSentinel(pre, p)
            Kept(j) == j < e /\ SlotPasses(pre, p, j)
            js == SelectSeq(<<0, 1, 2, 3, 4, 5>>, Kept)
        IN  /\ (e > 0 /\ ~SlotPasses(pre, p, 0)) => res.val = <<>>
            /\ (e > 0 /\ SlotPasses(pre, p, 0)) =>
                  /\ Len(res.val) = 1
                  /\ TeamOf(res) = [n \in 1..Len(js) |-> MemberAt(pre, p, js[n])]

\* Slot 0 and slot 2 pass, slot 1 fails: the team is slots 0 and 2.
C11_Witness ==
    /\ ScanDone
    /\ LET p == TestedRecord(pre)
       IN  /\ FirstSentinel(pre, p) > 2
           /\ SlotPasses(pre, p, 0)
           /\ ~SlotPasses(pre, p, 1)
           /\ SlotPasses(pre, p, 2)
           /\ TeamOf(res) = <<MemberAt(pre, p, 0), MemberAt(pre, p, 2)>>

\* C12: a species byte of 0x00 or 0xFF at slot j ends the scan of the
\* record: no slot k >= j contributes a member, the members accepted from
\* the slots before j are kept, and a sentinel at slot 0 yields no entry.
C12_SentinelEnds ==
    ScanDone =>
        LET p == TestedRecord(pre)
            e == FirstSentinel(pre, p)
            team == TeamOf(res)
        IN  /\ e = 0 => res.val = <<>>
            /\ \A n \in 1..Len(team) : \A k \in e..5 : team[n] # MemberAt(pre, p, k)
            /\ Len(team) <= e
            /\ SlotPasses(pre, p, 0) =>
                  \A k \in 0..(e - 1) :
                      SlotPasses(pre, p, k) => \E n \in 1..Len(team) : team[n] = MemberAt(pre, p, k)

\* A passing slot 0, a sentinel at slot 1 and a slot 2 that would pass: the
\* team is slot 0 alone.
C12_Witness ==
    /\ ScanDone
    /\ LET p == TestedRecord(pre)
       IN  /\ FirstSentinel(pre, p) = 1
           /\ SlotPasses(pre, p, 0)
           /\ MemberAt(pre, p, 2).speciesId \in 1..151
           /\ MemberAt(pre, p, 2).level \in 1..100
           /\ NameTaken(MemberAt(pre, p, 2).name)
           /\ TeamOf(res) = <<MemberAt(pre, p, 0)>>

\* The name condition as the claim words it: not empty, and fewer than half
\* of the characters are '?'.
NameAsStated(s) ==
    /\ Len(s) > 0
    /\ 2 * Cardinality({i \in 1..Len(s) : s[i] = 63}) < Len(s)

\* The slots the scan reaches with a plausible species and level: slot 0,
\* and the slots before the first sentinel of a record whose slot 0 passed.
ReachedSlots(b, p) ==
    {j \in 0..(FirstSentinel(b, p) - 1) :
        /\ MemberAt(b, p, j).speciesId \in 1..151
        /\ MemberAt(b, p, j).level \in 1..100
        /\ (j = 0 \/ SlotPasses(b, p, 0))}

InTeam(r, m) == \E n \in 1..Len(TeamOf(r)) : TeamOf(r)[n] = m

C14_NeverFailsOnContent ==
    op.name = "GetHallOfFame" =>
        LET accessible == Len(pre) >= 1432 + 50 * 96 /\ Len(pre) > 10318
        IN  /\ accessible => (res.err = "none" /\ Len(res.val) \in 0..50)
            /\ ~accessible => res.err = "OutOfRange"
            /\ bytes = pre

\* A block whose first record starts with the species byte 200 and whose
\* other bytes are 0x64 or 0xFF: a list comes back.
C14_Witness ==
    /\ op.name = "GetHallOfFame"
    /\ Len(pre) > 10318
    /\ pre[1432 + 1] = 200
    /\ pre[1432 + 14] \in {100, 255}
    /\ res.err = "none"

(***************************************************************************)
(* Packed decimal                                                          *)
(***************************************************************************)

\* C15: for every v in 0..999999 WriteBcd3 at an in-range offset succeeds
\* and ReadBcd3 at the same offset then returns v; for every v in 0..9999
\* the same holds of WriteBcd2 and ReadBcd2.
C15_BcdRoundTrip ==
    /\ (op.name = "WriteBcd3" /\ op.v <= 999999 /\ op.off + 3 <= Len(pre))
          => /\ res.err = "none"
             /\ ReadBcd3(bytes, op.off).err = "none"
             /\ ReadBcd3(bytes, op.off).val = op.v
    /\ (op.name = "WriteBcd2" /\ op.v <= 9999 /\ op.off + 2 <= Len(pre))
          => /\ res.err = "none"
             /\ ReadBcd2(bytes, op.off).err = "none"
             /\ ReadBcd2(bytes, op.off).val = op.v

\* 915019 written over three 0xFF bytes and read back.
C15_Witness ==
    /\ op.name = "WriteBcd3"
    /\ op.v = 915019
    /\ pre = <<255, 255, 255>>
    /\ res.err = "none"
    /\ bytes = <<145, 80, 25>>
    /\ ReadBcd3(bytes, 0).val = 915019

\* C16: WriteBcd3 with a value above 999999 and WriteBcd2 with a value
\* above 9999 fail with ValueOutOfRange before any byte is written: the
\* buffer is never touched and is unchanged, whatever the offset.
C16_ValueRejected ==
    ((op.name = "WriteBcd3" /\ op.v > 999999) \/ (op.name = "WriteBcd2" /\ op.v > 9999))
        => /\ res.err = "ValueOutOfRange"
           /\ ~res.acc
           /\ bytes = pre

\* 10000 offered to WriteBcd2 at offset 0 of a buffer of 0xFF bytes.
C16_Witness ==
    /\ op.name = "WriteBcd2"
    /\ op.v = 10000
    /\ op.off = 0
    /\ pre = <<255, 255, 255>>
    /\ res.err = "ValueOutOfRange"
    /\ bytes = pre

\* The decimal digit a nibble stands for: itself, or 0 when above 9.
DigitOf(nibble) == IF nibble \in 0..9 THEN nibble ELSE 0

\* The two digits of a stored byte as a number 0..99: high nibble first.
TwoDigits(byte) == 10 * DigitOf(byte \div 16) + DigitOf(byte % 16)

\* C17: ReadBcd3 and ReadBcd2 on stored bytes inside the buffer never fail
\* and return the integer whose decimal digits, most significant first,
\* are the high then the low nibble of each byte in order, a nibble above 9
\* counting as the digit 0; the buffer is unchanged.
C17_BcdDecode ==
    /\ (op.name = "ReadBcd3" /\ op.off + 3 <= Len(pre))
          => /\ res.err = "none"
             /\ res.val = 10000 * TwoDigits(pre[op.off + 1]) + 100 * TwoDigits(pre[op.off + 2])
                          + TwoDigits(pre[op.off + 3])
             /\ bytes = pre
    /\ (op.name = "ReadBcd2" /\ op.off + 2 <= Len(pre))
          => /\ res.err = "none"
             /\ res.val = 100 * TwoDigits(pre[op.off + 1]) + TwoDigits(pre[op.off + 2])
             /\ bytes = pre

\* 0x3C 0xA5 0x96 reads as 300596: the nibbles 0xC and 0xA count as 0.
C17_Witness ==
    /\ op.name = "ReadBcd3"
    /\ op.off = 0
    /\ pre = <<60, 165, 150>>
    /\ res.err = "none"
    /\ res.val = 300596

(***************************************************************************)
(* Names                                                                   *)
(***************************************************************************)

IsNameChar(c) == c \in 65..90 \/ c \in 97..122 \/ c \in 48..57 \/ c = 32

\* c with a lowercase letter turned into its uppercase letter.
UpperOf(c) == IF c \in 97..122 THEN c - 32 ELSE c

\* C18: a name of at most 10 letters, digits and spaces, encoded into an
\* 11-byte field inside the buffer and decoded from that field, comes back
\* with its lowercase letters in uppercase and is otherwise unchanged.
C18_NameRoundTrip ==
    (/\ op.name = "EncodeName"
     /\ op.len = 11
     /\ op.off + 11 <= Len(pre)
     /\ Len(op.v) <= 10
     /\ \A i \in 1..Len(op.v) : IsNameChar(op.v[i]))
        => /\ res.err = "none"
           /\ \A d \in DecodeName(bytes, op.off, 11) :
                 /\ d.err = "none"
                 /\ d.val = [i \in 1..Len(op.v) |-> UpperOf(op.v[i])]

\* "ash ketchu" written at offset 1 of a 12-byte buffer decodes to
\* "ASH KETCHU".
C18_Witness ==
    /\ op.name = "EncodeName"
    /\ op.off = 1
    /\ op.len = 11
    /\ op.v = <<97, 115, 104, 32, 107, 101, 116, 99, 104, 117>>
    /\ res.err = "none"
    /\ \E d \in DecodeName(bytes, 1, 11) : d.val = <<65, 83, 72, 32, 75, 69, 84, 67, 72, 85>>

\* The byte a character is stored as: 0x80.. for a letter (either case),
\* 0xA0.. for a digit, 0x7F for the space and for anything else.
StoredAs(c) ==
    IF UpperOf(c) \in 65..90 THEN 128 + UpperOf(c) - 65
    ELSE IF c \in 48..57 THEN 160 + c - 48
    ELSE 127

\* C19: EncodeName into a field of len >= 1 bytes inside the buffer writes
\* exactly the len bytes of the field: the first n = min(name length,
\* len - 1) are the encoded characters, byte n and every byte after it up
\* to len - 1 are 0x50; the bytes outside the field are unchanged.
C19_EncodeLayout ==
    (op.name = "EncodeName" /\ op.len >= 1 /\ op.off + op.len <= Len(pre))
        => LET n == Min(Len(op.v), op.len - 1)
           IN  /\ res.err = "none"
               /\ Len(bytes) = Len(pre)
               /\ \A i \in 1..Len(bytes) :
                     bytes[i] = IF i <= op.off \/ i > op.off + op.len THEN pre[i]
                                ELSE IF i <= op.off + n THEN StoredAs(op.v[i - op.off])
                                ELSE 80

\* The 12 letters "abcdefghijkl" into the 11-byte field at offset 1 of a
\* zero buffer: ten letters, then the terminator in the last byte.
C19_Witness ==
    /\ op.name = "EncodeName"
    /\ op.off = 1
    /\ op.len = 11
    /\ Len(op.v) = 12
    /\ pre = Filled(12, 0)
    /\ bytes = <<0, 128, 129, 130, 131, 132, 133, 134, 135, 136, 137, 80>>

\* The character a stored byte decodes to.
CharOf(byte) ==
    IF byte \in 128..153 THEN 65 + byte - 128
    ELSE IF byte \in 160..169 THEN 48 + byte - 160
    ELSE IF byte = 127 THEN 32
    ELSE 63

\* C20: DecodeName of a field of len bytes inside the buffer returns the
\* characters of the bytes before the first 0x50 (of all len bytes when
\* none is 0x50): 0x80..0x99 give 'A'..'Z', 0xA0..0xA9 give '0'..'9', 0x7F
\* gives the space, every other byte '?'; the result has at most len
\* characters and the buffer is unchanged.
C20_DecodeField ==
    (op.name = "DecodeName" /\ op.off + op.len <= Len(pre))
        => LET field == SubSeq(pre, op.off + 1, op.off + op.len)
               stops == {i \in 1..op.len : field[i] = 80}
               t     == IF stops = {} THEN op.len + 1
                        ELSE CHOOSE i \in stops : \A k \in stops : i <= k
           IN  /\ res.err = "none"
               /\ res.val = [i \in 1..(t - 1) |-> CharOf(field[i])]
               /\ Len(res.val) <= op.len
               /\ bytes = pre

\* A 12-byte field whose fourth byte is the terminator decodes to "ABC".
C20_Witness ==
    /\ op.name = "DecodeName"
    /\ op.off = 0
    /\ op.len = 12
    /\ pre[4] = 80
    /\ pre[5] = 132
    /\ res.err = "none"
    /\ res.val = <<65, 66, 67>>

\* ---------------------------------------------------------------------------
\* The twelve named box offsets of Gen1Layout, by 1-based box index.
NamedBoxOff ==
    <<Box1Off, Box2Off, Box3Off, Box4Off, Box5Off, Box6Off,
      Box7Off, Box8Off, Box9Off, Box10Off, Box11Off, Box12Off>>

\* C21: BoxBaseOffsetByIndex1to12(i) returns 0x4000 + (i-1)*0x462 for i in
\* 1..6 and 0x6000 + (i-7)*0x462 for i in 7..12, which is the named constant
\* Box<i>Off, and fails with InvalidIndex for every i outside 1..12.
C21_BoxBaseOffset ==
    op.name = "BoxBaseOffsetByIndex1to12" =>
        IF op.idx \in 1..12
        THEN /\ res.err = "none"
             /\ res.val = (IF op.idx <= 6 THEN 16384 + (op.idx - 1) * 1122
                                          ELSE 24576 + (op.idx - 7) * 1122)
             /\ res.val = NamedBoxOff[op.idx]
        ELSE res.err = "InvalidIndex"

C21_Witness ==
    /\ op.name = "BoxBaseOffsetByIndex1to12"
    /\ op.idx = 12
    /\ res.err = "none"
    /\ res.val = 30186

\* ---------------------------------------------------------------------------
\* The block of box i as the layout helper places it: 0x462 bytes from its base.
BlockOf(i) ==
    LET base == BoxBaseOffsetByIndex1to12(i).val
    IN  base .. base + 1122 - 1

\* The offset of the stored checksum of box i: the per-bank table base the
\* helper selects plus the 0-based position of the box within its bank.
StoredOf(i) ==
    BankPerBoxChecksumsBaseOffsetForBoxIndex1to12(i).val
        + (IF i <= 6 THEN i - 1 ELSE i - 7)

\* The offsets of bank 2 (0x4000..0x5FFF) and bank 3 (0x6000..0x7FFF).
BankOf(i) == IF i <= 6 THEN 16384 .. 24575 ELSE 24576 .. 32767

\* C22: the twelve box blocks are pairwise disjoint; boxes 1..6 lie in bank 2
\* and boxes 7..12 in bank 3, entirely before that bank's all-checksum byte;
\* each index selects exactly one of the two per-bank checksum tables; the
\* twelve stored checksum offsets are pairwise distinct and lie in no box
\* block.  FixBox(i) stores at exactly that offset.
C22_BoxLayout ==
    (op.name = "FixBox" /\ res.err = "none") =>
        /\ \A i, j \in 1..12 : i # j => BlockOf(i) \cap BlockOf(j) = {}
        /\ \A i \in 1..12 :
              /\ BlockOf(i) \subseteq BankOf(i)
              /\ BankAllChecksumOffsetForBoxIndex1to12(i).val \in BankOf(i)
              /\ \A o \in BlockOf(i) : o < BankAllChecksumOffsetForBoxIndex1to12(i).val
              /\ BankPerBoxChecksumsBaseOffsetForBoxIndex1to12(i).val
                    = (IF i <= 6 THEN 23117 ELSE 31309)
        /\ \A i, j \in 1..12 : i # j => StoredOf(i) # StoredOf(j)
        /\ \A i, j \in 1..12 : StoredOf(i) \notin BlockOf(j)
        /\ \A o \in 0 .. Len(bytes) - 1 :
              bytes[o + 1] # pre[o + 1] => o = StoredOf(op.idx)

\* FixBox(7) has stored a new byte at 0x7A4D, the first entry of bank 3's table.
C22_Witness ==
    /\ op.name = "FixBox"
    /\ op.idx = 7
    /\ res.err = "none"
    /\ bytes[31309 + 1] # pre[31309 + 1]
    /\ StoredOf(1) = 23117

\* ---------------------------------------------------------------------------
\* C23: HasValidMainChecksum never fails, whatever the buffer size: it
\* returns whether the stored byte at 0x3523 equals 255 minus (the sum of
\* 0x2598..0x3522 modulo 256) when the buffer holds 0x2598..0x3523, and false
\* when the buffer is too short for that; the buffer is unchanged.
C23_HasValidMainChecksum ==
    op.name = "HasValidMainChecksum" =>
        /\ res.err = "none"
        /\ res.val = IF Len(pre) >= 13603 + 1
                     THEN pre[13603 + 1] = 255 - (RangeSum(pre, 9624, 13602) % 256)
                     ELSE FALSE
        /\ bytes = pre

\* The buffer ends just before the stored byte: the answer is false, not a failure.
C23_Witness ==
    /\ op.name = "HasValidMainChecksum"
    /\ Len(pre) = 13603
    /\ res.err = "none"
    /\ res.val = FALSE

\* ---------------------------------------------------------------------------
\* The last call wrote one of the protected main-bank fields: the trainer or
\* rival name, the money, the coins, the badges.
IsFieldEdit ==
    \/ op.name = "EncodeName" /\ op.off \in {9624, 9718}
    \/ op.name = "WriteBcd3" /\ op.off = 9715
    \/ op.name = "WriteBcd2" /\ op.off = 10320
    \/ op.name \in {"WriteU8", "SetBit"} /\ op.off = 9730

\* The stored byte at 0x3523 is 255 minus (the sum of 0x2598..0x3522 mod 256).
MainInOrder(b) == b[13603 + 1] = 255 - (RangeSum(b, 9624, 13602) % 256)

\* C24: from a buffer whose main checksum validates, after any mutating
\* operation on a protected main-bank field the main checksum still validates.
C24_EditKeepsMainValid ==
    (IsFieldEdit /\ steps = 1 /\ MainInOrder(pre)) =>
        /\ ValidateMain(bytes).err = "none"
        /\ ValidateMain(bytes).val = TRUE
        /\ MainInOrder(bytes)

\* ---------------------------------------------------------------------------
\* The bank (2 or 3) that holds box i.
BankOfBox(i) == IF i <= 6 THEN 2 ELSE 3

\* The step overwrote exactly the byte at offset o with a different value.
OverwroteOnly(o) ==
    /\ o < Len(bytes)
    /\ bytes'[o + 1] # bytes[o + 1]
    /\ bytes' = [bytes EXCEPT ![o + 1] = bytes'[o + 1]]

\* A write of one byte with a different value is detected by every checksum
\* class that validated before and whose summed range or stored byte it hit.
CorruptionDetected ==
    \A o \in op'.off .. op'.off + op'.len - 1 :
        (op'.name \notin {"FixMain", "FixBankAll", "FixBox"} /\ OverwroteOnly(o)) =>
            /\ (o \in 9624..13603 /\ ValidateMain(bytes).val = TRUE)
                  => /\ ValidateMain(bytes').err = "none"
                     /\ ValidateMain(bytes').val = FALSE
            /\ \A k \in {2, 3} :
                  (o \in BankFirst(k)..BankStored(k) /\ ValidateBankAll(bytes, k).val = TRUE)
                      => /\ ValidateBankAll(bytes', k).err = "none"
                         /\ ValidateBankAll(bytes', k).val = FALSE
            /\ \A i \in 1..12 :
                  (/\ o \in (BoxFirst(i)..BoxFirst(i) + 1122 - 1) \cup {BoxStored(i)}
                   /\ ValidateBox(bytes, i).val = TRUE)
                      => /\ ValidateBox(bytes', i).err = "none"
                         /\ ValidateBox(bytes', i).val = FALSE

\* FixBox(i) right after a byte of box i was changed in a buffer that was in
\* order: the box validates again, its bank does not.
BoxRepairLeavesBank ==
    \A i \in 1..12 :
        (/\ steps = 1
         /\ op.name = "WriteU8"
         /\ op.off \in BoxFirst(i)..BoxFirst(i) + 1122 - 1
         /\ bytes[op.off + 1] # pre[op.off + 1]
         /\ op'.name = "FixBox"
         /\ op'.idx = i) =>
            /\ ValidateBox(bytes', i).val = TRUE
            /\ ValidateBankAll(bytes', BankOfBox(i)).err = "none"
            /\ ValidateBankAll(bytes', BankOfBox(i)).val = FALSE

\* A bank that does not validate stays so under every repair but its own
\* FixBankAll, which makes it validate.
BankWaitsForItsRepair ==
    \A k \in {2, 3} :
        (op'.name \in {"FixMain", "FixBankAll", "FixBox"}
            /\ ValidateBankAll(bytes, k).val = FALSE) =>
                ValidateBankAll(bytes', k).val = (op'.name = "FixBankAll" /\ op'.idx = k)

\* C26: after its repair each checksum class detects the overwriting of any
\* one byte of its summed range, or of its stored byte, with a different
\* value: its validate returns false.  After one byte of box i is changed
\* and only FixBox(i) is called, ValidateBox(i) is true and ValidateBankAll
\* of the box's bank is false until FixBankAll of that bank is called.
C26_CorruptionDetected ==
    [][CorruptionDetected /\ BoxRepairLeavesBank /\ BankWaitsForItsRepair]_vars

\* The first byte of box 1 was overwritten with 0xFF and FixBox(1) called:
\* the box validates, bank 2 does not.
C26_Witness ==
    /\ steps = 2
    /\ op.name = "FixBox"
    /\ op.idx = 1
    /\ bytes[16384 + 1] = 255
    /\ ValidateBox(bytes, 1).val = TRUE
    /\ ValidateBankAll(bytes, 2).val = FALSE
    /\ ValidateMain(bytes).val = TRUE

\* ---------------------------------------------------------------------------
\* The backup of a path: '(BACKUP) <filename>' in the same directory.
BackupOf(path) == [dir |-> path.dir, filename |-> <<"(BACKUP) ">> \o path.filename]

\* One call of BackupFile: an existing backup is left as it is and its path
\* returned; otherwise the input is copied to it (the call fails when there
\* is no input); no other file changes, the original least of all.
BackupStep ==
    op'.name = "BackupFile" =>
        LET path == op'.v
            bak  == BackupOf(path)
        IN  /\ \A q \in DOMAIN files : q # bak => files'[q] = files[q]
            /\ files'[path] = files[path]
            /\ IF files[bak].exists
               THEN files'[bak] = files[bak] /\ res'.err = "none" /\ res'.val = bak
               ELSE IF files[path].exists
                    THEN /\ files'[bak].exists
                         /\ files'[bak].data = files[path].data
                         /\ res'.err = "none"
                         /\ res'.val = bak
                    ELSE ~files'[bak].exists /\ res'.err # "none"

\* C25: BackupFile never overwrites an existing backup: it targets
\* '(BACKUP) <filename>' in the input's directory, returns the path of an
\* existing backup without touching it, copies the input otherwise and
\* never modifies the original; so, whatever calls of BackupFile and
\* rewrites of the original follow, a backup keeps for ever the content it
\* got: the content of the original at the first successful call.
C25_BackupNeverOverwritten ==
    /\ [][BackupStep]_vars
    /\ \A path \in InputPaths : \A c \in FileContents :
          []((files[BackupOf(path)].exists /\ files[BackupOf(path)].data = c)
                => [](files[BackupOf(path)].exists /\ files[BackupOf(path)].data = c))

\* A second BackupFile after the original was rewritten: the backup still
\* holds the first content.
C25_Witness ==
    /\ op.name = "BackupFile"
    /\ op.v = [dir |-> "saves", filename |-> <<"red.sav">>]
    /\ res.err = "none"
    /\ steps >= 3
    /\ files[op.v].data = <<2>>
    /\ files[BackupOf(op.v)].exists
    /\ files[BackupOf(op.v)].data = <<1>>

\* ---------------------------------------------------------------------------
\* The fifteen checksums, each named by its repair and the repair's index.
ChecksumClasses ==
    {<<"FixMain", 0>>} \cup {<<"FixBankAll", k>> : k \in {2, 3}}
                       \cup {<<"FixBox", i>> : i \in 1..12}

\* The validate of checksum c returns true on buffer b.
Validates(b, c) ==
    LET v == IF c[1] = "FixMain" THEN ValidateMain(b)
             ELSE IF c[1] = "FixBankAll" THEN ValidateBankAll(b, c[2])
             ELSE ValidateBox(b, c[2])
    IN  v.err = "none" /\ v.val = TRUE

\* The summed range of checksum c and the offset of its stored byte.
SummedRange(c) ==
    IF c[1] = "FixMain" THEN 9624..13602
    ELSE IF c[1] = "FixBankAll" THEN BankFirst(c[2])..(BankStored(c[2]) - 1)
    ELSE BoxFirst(c[2])..(BoxFirst(c[2]) + 1122 - 1)

StoredByte(c) ==
    IF c[1] = "FixMain" THEN 13603
    ELSE IF c[1] = "FixBankAll" THEN BankStored(c[2])
    ELSE BoxStored(c[2])

TeamFromRecord(b, p, team) ==
    \E f \in [1..Len(team) -> 0..5] :
        /\ \A n \in 1..(Len(team) - 1) : f[n] < f[n + 1]
        /\ \A n \in 1..Len(team) : MemberAt(b, p, f[n]) = team[n]

\* C28: every list GetHallOfFame returns has at most min(clamped count
\* hint, 50) entries; the entry at position k has display index k; each
\* entry has 1 to 6 members, which are slots of one record in increasing
\* slot order; every member has a species id in 1..151, a level in 1..100
\* and a name that passed the plausibility check.
C28_ListShape ==
    ScanDone =>
        /\ Len(res.val) <= Min(HintOf(pre), 50)
        /\ \A k \in 1..Len(res.val) :
              LET e == res.val[k]
              IN  /\ e.entryIndex = k
                  /\ Len(e.team) \in 1..6
                  /\ \A n \in 1..Len(e.team) :
                        /\ e.team[n].speciesId \in 1..151
                        /\ e.team[n].level \in 1..100
                        /\ NameTaken(e.team[n].name)
                  /\ \E p \in 0..49 :
                        /\ pre[SlotOff(p, 0) + 1] = e.team[1].speciesId
                        /\ TeamFromRecord(pre, p, e.team)

\* A hint of 2 over three valid records: two entries, numbered 1 and 2, the
\* second made of slots 0 and 2 of the last record of the block.
C28_Witness ==
    /\ ScanDone
    /\ pre[10318 + 1] = 2
    /\ Len(ScannedOf(pre)) = 3
    /\ Len(res.val) = 2
    /\ res.val[2].entryIndex = 2
    /\ res.val[2].team = <<MemberAt(pre, 49, 0), MemberAt(pre, 49, 2)>>

\* ---------------------------------------------------------------------------
\* The member slots lo..hi-1 (of the 300 from 0x0598 on) of buffer b, each
\* with its first 13 bytes kept and its last 3 bytes replaced.
RECURSIVE OtherSlots(_, _, _)
OtherSlots(b, lo, hi) ==
    IF hi - lo <= 1
    THEN SubSeq(b, 1432 + 16 * lo + 1, 1432 + 16 * lo + 13) \o <<170, 171, 172>>
    ELSE LET mid == (lo + hi) \div 2
         IN  OtherSlots(b, lo, mid) \o OtherSlots(b, mid, hi)

\* Bytes for 0..0x0597, for the end of the block up to 0x284D, and for
\* 0x284F..0x7FFF (the checksum bytes among them).
OtherHead == [i \in 1..1432 |-> 170]

OtherMiddle == [i \in 1..4086 |-> 171]

OtherTail == [i \in 1..22449 |-> 172]

\* A full-size buffer that agrees with b on the count byte at 0x284E and
\* on the first 13 bytes of every member slot, and differs from it in
\* every other byte.
OtherBuffer(b) ==
    OtherHead \o OtherSlots(b, 0, 300) \o OtherMiddle \o <<b[10318 + 1]>> \o OtherTail

\* Buffers a and b hold the same count byte and the same first 13 bytes in
\* each of the 300 member slots.
AgreeOnSlots(a, b) ==
    /\ a[10318 + 1] = b[10318 + 1]
    /\ \A n \in 0..299 :
          SubSeq(a, 1432 + 16 * n + 1, 1432 + 16 * n + 13)
              = SubSeq(b, 1432 + 16 * n + 1, 1432 + 16 * n + 13)

\* C29: GetHallOfFame depends on nothing but the count byte at 0x284E and
\* the first 13 bytes of each of the 300 member slots from 0x0598 on: a
\* second buffer that agrees on those bytes and differs everywhere else
\* (the last 3 bytes of each slot and the checksum bytes included) gives
\* the same result; the call leaves the buffer unchanged.
C29_DependsOnlyOnSlots ==
    (op.name = "GetHallOfFame" /\ Len(pre) >= 10318 + 1) =>
        LET other == OtherBuffer(pre)
            r     == GetHallOfFame(other)
        IN  /\ AgreeOnSlots(pre, other)
            /\ \A n \in 0..299 : other[1432 + 16 * n + 14] # pre[1432 + 16 * n + 14]
            /\ Len(other) = 32768
            /\ res.err = "none"
            /\ r.err = res.err
            /\ r.val = res.val
            /\ bytes = pre

\* Two entries are returned for a buffer and for its full-size counterpart
\* that differs in byte 13 of the first slot and in the main checksum byte.
C29_Witness ==
    /\ op.name = "GetHallOfFame"
    /\ Len(pre) = 10318 + 1
    /\ Len(res.val) = 2
    /\ pre[1432 + 14] = 100
    /\ OtherBuffer(pre)[1432 + 14] = 170
    /\ OtherBuffer(pre)[13603 + 1] = 172
    /\ GetHallOfFame(OtherBuffer(pre)).val = res.val

\* ---------------------------------------------------------------------------
\* The writes of whole bytes.
ByteWrites ==
    {"WriteU8", "WriteU16LE", "WriteU24BE", "EncodeName", "WriteBcd2", "WriteBcd3"}

\* The bytes of b before offset off, and those from offset off on.
Before(b, off) == SubSeq(b, 1, IF off < Len(b) THEN off ELSE Len(b))

From(b, off) == IF off >= Len(b) THEN <<>> ELSE SubSeq(b, off + 1, Len(b))

\* C30: a successful WriteU8, WriteU16LE, WriteU24BE, EncodeName(off, len),
\* WriteBcd2 or WriteBcd3 changes no byte outside [off, off + width); a
\* successful SetBit(off, i, b) changes no bit but bit i of byte off; no
\* operation changes the size of the buffer.
C30_WritesTouchOnlyTarget ==
    /\ Len(bytes) = Len(pre)
    /\ (op.name \in ByteWrites /\ res.err = "none") =>
          /\ Before(bytes, op.off) = Before(pre, op.off)
          /\ From(bytes, op.off + op.len) = From(pre, op.off + op.len)
    /\ (op.name = "SetBit" /\ res.err = "none") =>
          /\ Before(bytes, op.off) = Before(pre, op.off)
          /\ From(bytes, op.off + 1) = From(pre, op.off + 1)
          /\ \A j \in 0..7 :
                j # op.idx =>
                    (bytes[op.off + 1] \div 2 ^ j) % 2 = (pre[op.off + 1] \div 2 ^ j) % 2

\* SetBit(BadgesOff, 0, true) on a badge byte of 0xC0: the byte is 0xC1.
C30_Witness ==
    /\ op.name = "SetBit"
    /\ op.idx = 0
    /\ op.v = TRUE
    /\ res.err = "none"
    /\ pre[9730 + 1] = 192
    /\ bytes[9730 + 1] = 193
    /\ Len(bytes) = 32768

====
